---- MODULE Spec2Model ----
(***************************************************************************)
(* A state-machine model of the IMGSRV image sequence server:              *)
(*   - ConfigManager (src/src/services/config_manager.py),                 *)
(*   - the configuration HTTP handlers of src/src/app.py,                  *)
(*   - ImageSequenceService (src/src/services/sequence_service.py): its    *)
(*     start/stop/reload_config coroutines and the capture loop task,      *)
(*   - StorageManager (src/src/services/storage.py).                       *)
(*                                                                         *)
(* All coroutines run on one asyncio event loop: a step of the model is    *)
(* the code one coroutine runs between two suspension points.              *)
(***************************************************************************)
EXTENDS Integers, Sequences, FiniteSets, TLC

VARIABLES
    \* ---- ConfigManager / configuration file -------------------------------
    current_config,   \* ImageSequenceService.config_manager.current_config
    config_file,      \* /etc/imgserv/analytics_config.json: [state, data]
    result,           \* what the last ConfigManager call returned
    last_call,        \* the last ConfigManager call: [op, updates, saved]
    \* ---- ImageSequenceService ----------------------------------------------
    is_running,       \* self.is_running
    capture_task,     \* self.capture_task: a task id, 0 for None
    task,             \* the capture-loop tasks ever created, by id
    start_pc,         \* where the start() coroutine is
    stop_pc,          \* where the stop() coroutine is
    call,             \* the POST /config/analytics handlers, by id
    \* ---- StorageManager and the pipeline of one loop task ------------------
    now,              \* the wall clock, in ticks
    images,           \* the *.jpg files of images_dir: [ts, mtime]
    sequences,        \* the *.gif files of sequences_dir, oldest mtime first
    last_sequence_update,  \* self.last_sequence_update, -1 for None
    vps_enabled,      \* settings.vps_enabled
    lp,               \* the loop task inside its iteration
    latest,           \* what the last get_latest_sequence() call returned
    gen,              \* how the last sequence generation that wrote ended
    \* ---- single calls of the components ------------------------------------
    cam,              \* one RTSPCamera.capture_snapshot() call
    road,             \* one SnowAnalytics._determine_road_status() call
    api,              \* direct calls of save_image and get_recent_images
    asm,              \* one assembly of a sequence from a list of frames
    ovl,              \* one frame on its way through the overlays
    iter,             \* one loop's iterations, step by step
    wx,               \* the WeatherDataClient, its cache and its clock
    surf,             \* one RoadSurfaceAnalyzer.analyze_road_surface call
    mir,              \* one generate_sequence call from the assembly to the sleep
    hist              \* SnowAnalytics' history of analysis results

cfgVars == <<current_config, config_file, result, last_call>>
svcVars == <<is_running, capture_task, task, start_pc, stop_pc, call>>

storeVars == <<now, images, sequences, last_sequence_update, vps_enabled,
               lp, latest, gen>>

unitVars == <<cam, road, api, asm, ovl, iter, wx, surf, mir, hist>>

vars == <<current_config, config_file, result, last_call,
          is_running, capture_task, task, start_pc, stop_pc, call,
          now, images, sequences, last_sequence_update, vps_enabled,
          lp, latest, gen, cam, road, api, asm, ovl, iter, wx, surf, mir,
          hist>>

-----------------------------------------------------------------------------
(* JSON values.  A value is [ty, v]: ty is the Python type of the decoded   *)
(* JSON value, v an integer payload: the number itself for "int", 0/1 for  *)
(* "bool", hundredths for "float", an index for "str" (0 is the empty or   *)
(* blank string), the length for "list".                                   *)

JInt(n)   == [ty |-> "int",   v |-> n]
JBool(b)  == [ty |-> "bool",  v |-> IF b THEN 1 ELSE 0]
JFloat(h) == [ty |-> "float", v |-> h]
JStr(i)   == [ty |-> "str",   v |-> i]
JList(n)  == [ty |-> "list",  v |-> n]
JNone     == [ty |-> "none",  v |-> 0]
\* a list of n items of which at least one is not a pair of numbers in [0, 1]
JBadPoints(n) == [ty |-> "badpoints", v |-> n]

\* isinstance(x, bool)
IsBool(x) == x.ty = "bool"
\* isinstance(x, int): bool is a subclass of int in Python
IsInt(x) == x.ty \in {"int", "bool"}
\* isinstance(x, (int, float))
IsNumber(x) == x.ty \in {"int", "bool", "float"}
\* the numeric value of x in hundredths
Hundredths(x) == IF x.ty = "float" THEN x.v ELSE 100 * x.v

\* The text stored under "last_updated" by _save_config (an ISO timestamp):
\* only its presence is modelled.
StampText == JStr(1)

\* config_manager.py:30-49, the keys of default_config that are modelled
default_config ==
    [k \in {"analytics_enabled", "snow_detection_threshold",
            "sequence_update_interval_minutes", "max_images_per_sequence",
            "road_roi_points", "road_roi_enabled", "last_updated"} |->
        CASE k = "analytics_enabled" -> JBool(TRUE)
          [] k = "snow_detection_threshold" -> JFloat(70)
          [] k = "sequence_update_interval_minutes" -> JInt(5)
          [] k = "max_images_per_sequence" -> JInt(10)
          [] k = "road_roi_points" -> JList(0)
          [] k = "road_roi_enabled" -> JBool(FALSE)
          [] OTHER -> JNone]

\* config_manager.py:137-159, the validation rules of the modelled keys
ValidationKeys ==
    {"analytics_enabled", "snow_detection_threshold",
     "sequence_update_interval_minutes", "max_images_per_sequence",
     "road_roi_points", "road_roi_enabled"}

Validates(k, x) ==
    CASE k = "analytics_enabled" -> IsBool(x)
      [] k = "snow_detection_threshold" ->
            IsNumber(x) /\ 0 <= Hundredths(x) /\ Hundredths(x) <= 100
      [] k = "sequence_update_interval_minutes" ->
            IsInt(x) /\ 1 <= x.v /\ x.v <= 60
      [] k = "max_images_per_sequence" ->
            IsInt(x) /\ 1 <= x.v /\ x.v <= 30
      \* a list whose items are all pairs of numbers in [0, 1]
      [] k = "road_roi_points" -> x.ty = "list"
      [] k = "road_roi_enabled" -> IsBool(x)
      [] OTHER -> FALSE

\* dict.update: the entries of d2 override those of d1
DictUpdate(d1, d2) ==
    [k \in DOMAIN d1 \cup DOMAIN d2 |-> IF k \in DOMAIN d2 THEN d2[k] ELSE d1[k]]

EmptyDict == [k \in {} |-> JNone]

\* The keys of a request that _validate_updates reports in its errors list
\* (one message per key: invalid value, or unknown key).
OffendingKeys(updates) ==
    {k \in DOMAIN updates : k \notin ValidationKeys \/ ~Validates(k, updates[k])}

\* ConfigManager._validate_updates: the validated entries, or the error dict
\* {"status", "message", "errors"}.
ValidateUpdates(updates) ==
    IF OffendingKeys(updates) # {}
    THEN [k \in {"status", "message", "errors"} |->
            CASE k = "status" -> JStr(2)
              [] k = "message" -> JStr(3)
              [] OTHER -> JList(Cardinality(OffendingKeys(updates)))]
    ELSE updates

\* update_config, line 104: the test that decides whether validation failed
ValidationFailed(validated) == "error" \in DOMAIN validated

\* The configuration file on disk: absent, a complete JSON document, or a
\* document left truncated by a failed write.
FileAbsent == [state |-> "absent", data |-> EmptyDict]
FileOk(d) == [state |-> "ok", data |-> d]
FileCorrupt == [state |-> "corrupt", data |-> EmptyDict]

\* ConfigManager._load_config: the file's content, or the defaults when the
\* file is missing or cannot be parsed
LoadConfig(file) ==
    IF file.state = "ok" THEN file.data ELSE default_config

\* How a write of the configuration file can end: written, refused before
\* the file was opened, or failed after open(..., 'w') truncated it.
SaveOutcomes == {"written", "refused", "truncated"}

\* ConfigManager._save_config: stamps the dict it was given (the caller's
\* object) and writes it; returns [config, file, ok].
SaveConfig(config, file, outcome) ==
    LET stamped == DictUpdate(config, [k \in {"last_updated"} |-> StampText])
    IN [config |-> stamped,
        file |-> CASE outcome = "written" -> FileOk(stamped)
                   [] outcome = "refused" -> file
                   [] OTHER -> FileCorrupt,
        ok |-> outcome = "written"]

Result(status, message, errors) ==
    [status |-> status, message |-> message, errors |-> errors]

\* ConfigManager.update_config on a manager whose current_config is config:
\* [config, file, result]
UpdateConfig(config, file, updates, outcome) ==
    LET validated == ValidateUpdates(updates)
        saved == SaveConfig(DictUpdate(config, validated), file, outcome)
    IN IF ValidationFailed(validated)
       THEN [config |-> config, file |-> file,
             result |-> Result("error", "Validation failed", OffendingKeys(updates))]
       ELSE [config |-> saved.config, file |-> saved.file,
             result |-> IF saved.ok
                        THEN Result("success", "Configuration updated successfully", {})
                        ELSE Result("error", "Failed to save configuration", {})]

\* ConfigManager.reset_to_defaults: [config, file, result]
ResetToDefaults(file, outcome) ==
    LET saved == SaveConfig(default_config, file, outcome)
    IN [config |-> saved.config, file |-> saved.file,
        result |-> IF saved.ok
                   THEN Result("success", "Configuration reset to defaults", {})
                   ELSE Result("error", "Failed to save default configuration", {})]

\* ConfigManager.get_capture_interval, in tenths of a second:
\* round((update_interval * 60) / max_images, 1), round half to even
RoundHalfEven(n, d) ==
    LET q == n \div d
        r == n % d
    IN IF 2 * r > d \/ (2 * r = d /\ q % 2 = 1) THEN q + 1 ELSE q

ConfigGet(config, k, dflt) == IF k \in DOMAIN config THEN config[k].v ELSE dflt

get_capture_interval(config) ==
    RoundHalfEven(ConfigGet(config, "sequence_update_interval_minutes", 5) * 600,
                  ConfigGet(config, "max_images_per_sequence", 10))

-----------------------------------------------------------------------------
(* Requests sent to update_config: partial maps of keys to JSON values.     *)

Req1(k, x) == [j \in {k} |-> x]
Req2(k1, x1, k2, x2) == DictUpdate(Req1(k1, x1), Req1(k2, x2))

Requests ==
    { Req1("snow_detection_threshold", JFloat(50)),
      Req1("snow_detection_threshold", JFloat(150)),
      Req1("max_images_per_sequence", JInt(30)),
      Req1("max_images_per_sequence", JInt(0)),
      Req1("sequence_update_interval_minutes", JInt(1)),
      Req1("analytics_enabled", JBool(FALSE)),
      Req1("bogus_key", JInt(1)),
      Req2("max_images_per_sequence", JInt(7),
           "snow_detection_threshold", JFloat(150)),
      Req2("max_images_per_sequence", JInt(7),
           "sequence_update_interval_minutes", JInt(1)) }

\* the point counts the configuration page accepts for a region
MIN_POINTS == 4
MAX_POINTS == 12

\* Requests that set the road region of interest
RoiRequests ==
    { Req1("road_roi_enabled", JBool(TRUE)),
      Req1("road_roi_enabled", JBool(FALSE)),
      Req1("road_roi_points", JList(0)),
      Req1("road_roi_points", JList(MIN_POINTS - 1)),
      Req1("road_roi_points", JList(MIN_POINTS)),
      Req1("road_roi_points", JList(MAX_POINTS + 1)),
      Req1("road_roi_points", JBadPoints(MIN_POINTS)),
      Req2("road_roi_enabled", JBool(TRUE),
           "road_roi_points", JList(MIN_POINTS)),
      Req2("road_roi_enabled", JBool(TRUE),
           "road_roi_points", JList(MIN_POINTS - 1)) }

NoCall == [op |-> "none", updates |-> EmptyDict, saved |-> FALSE]

-----------------------------------------------------------------------------
(* The capture-loop tasks and the coroutines that create and cancel them.   *)

\* Bounds of the model
MaxTasks == 3
MaxCalls == 2
MaxFailures == 6

TaskIds == 1..MaxTasks
CallIds == 1..MaxCalls

\* sequence_service.py:139, 181, 183, 188 (sleeps in seconds)
max_consecutive_failures == 5
LongBackoff == 300
ShortBackoff == 60
MinimalBackoff == 30

\* A task: pc is where the coroutine is suspended ("none": not created,
\* "start": created and not yet run, "capturing": in capture_snapshot,
\* "sleeping": in asyncio.sleep, "done"); cancel: Task.cancel() was called
\* and the CancelledError is not delivered yet; ending: why it is done;
\* consecutive_failures: the local of _capture_loop; sleep: the argument of
\* the asyncio.sleep it is in, in tenths of a second; outcome: how its last
\* iteration ended; streak: the failed iterations since the last successful
\* one (or since the loop began).
NoTask ==
    [pc |-> "none", cancel |-> FALSE, ending |-> "", consecutive_failures |-> 0,
     sleep |-> 0, outcome |-> "none", streak |-> 0]
NewTask == [NoTask EXCEPT !.pc = "start"]
DoneTask(why) == [NoTask EXCEPT !.pc = "done", !.ending = why]

IdleCall == [pc |-> "idle", waits |-> 0]

Alive(t) == task[t].pc \in {"start", "capturing", "sleeping"}
\* asyncio.Task.done()
Done(t) == task[t].pc = "done"
Created == {t \in TaskIds : task[t].pc # "none"}
Awaiting == {h \in CallIds : call[h].pc = "awaiting"}
\* asyncio.create_task: the next unused id
NextTask == Cardinality(Created) + 1

\* _capture_loop, lines 158-173: the frame was captured and saved
OnSuccess(rec, config) ==
    [rec EXCEPT !.pc = "sleeping", !.consecutive_failures = 0,
                !.sleep = get_capture_interval(config),
                !.outcome = "ok", !.streak = 0]

\* OnCameraError with the threshold test off by one (> for >=)
OnCameraError_OffByOne(rec) ==
    [rec EXCEPT !.pc = "sleeping",
                !.consecutive_failures = @ + 1,
                !.sleep = IF rec.consecutive_failures + 1 > max_consecutive_failures
                          THEN LongBackoff * 10 ELSE ShortBackoff * 10,
                !.outcome = "camera_error", !.streak = @ + 1]

\* _capture_loop, lines 175-183: except CameraError
OnCameraError(rec) ==
    [rec EXCEPT !.pc = "sleeping",
                !.consecutive_failures = @ + 1,
                !.sleep = IF rec.consecutive_failures + 1 >= max_consecutive_failures
                          THEN LongBackoff * 10 ELSE ShortBackoff * 10,
                !.outcome = "camera_error", !.streak = @ + 1]

\* OnUnexpected without the except Exception clause: the exception leaves
\* the loop and the task ends
OnUnexpected_Escapes(rec) == DoneTask("crashed")

\* _capture_loop, lines 185-188: except Exception (save_image re-raises)
OnUnexpected(rec) ==
    [rec EXCEPT !.pc = "sleeping",
                !.consecutive_failures = @ + 1,
                !.sleep = MinimalBackoff * 10,
                !.outcome = "unexpected", !.streak = @ + 1]

\* How an iteration that reached capture_snapshot's result can end
IterationOutcomes == {"ok", "camera_error", "unexpected"}

IterationEnd(rec, outcome, config) ==
    CASE outcome = "ok" -> OnSuccess(rec, config)
      [] outcome = "camera_error" -> OnCameraError(rec)
      [] OTHER -> OnUnexpected(rec)

\* ---- the capture loop task ------------------------------------------------

\* The task runs for the first time, or its sleep is over: `while
\* self.is_running` is evaluated, and the loop either ends or enters
\* capture_snapshot, which suspends on the extraction subprocess.
LoopTop(t) ==
    /\ task[t].pc \in {"start", "sleeping"}
    /\ ~task[t].cancel
    /\ task' = [task EXCEPT ![t] = IF is_running
                                   THEN [@ EXCEPT !.pc = "capturing"]
                                   ELSE DoneTask("stopped")]
    /\ UNCHANGED <<is_running, capture_task, start_pc, stop_pc, call>>
    /\ UNCHANGED cfgVars
    /\ UNCHANGED storeVars
    /\ UNCHANGED unitVars

\* capture_snapshot returns or raises; the rest of the iteration runs up to
\* the next asyncio.sleep.
CaptureReturns(t) ==
    /\ task[t].pc = "capturing"
    /\ ~task[t].cancel
    /\ \E outcome \in IterationOutcomes :
        /\ outcome # "ok" => task[t].consecutive_failures < MaxFailures
        /\ task' = [task EXCEPT ![t] = IterationEnd(@, outcome, current_config)]
    /\ UNCHANGED <<is_running, capture_task, start_pc, stop_pc, call>>
    /\ UNCHANGED cfgVars
    /\ UNCHANGED storeVars
    /\ UNCHANGED unitVars

\* The CancelledError of a cancel() is raised at the task's suspension
\* point; no handler of the loop catches it and the task ends.
Cancelled(t) ==
    /\ Alive(t)
    /\ task[t].cancel
    /\ task' = [task EXCEPT ![t] = DoneTask("cancelled")]
    /\ UNCHANGED <<is_running, capture_task, start_pc, stop_pc, call>>
    /\ UNCHANGED cfgVars
    /\ UNCHANGED storeVars
    /\ UNCHANGED unitVars

\* ---- ImageSequenceService.start ------------------------------------------

\* lines 74-77: up to the await of camera.test_connection()
Start ==
    /\ start_pc = "idle"
    /\ is_running' = TRUE
    /\ start_pc' = "testing"
    /\ UNCHANGED <<capture_task, task, stop_pc, call>>
    /\ UNCHANGED cfgVars
    /\ UNCHANGED storeVars
    /\ UNCHANGED unitVars

\* lines 78-86: create_task(self._capture_loop())
StartResume ==
    /\ start_pc = "testing"
    /\ task' = [task EXCEPT ![NextTask] = NewTask]
    /\ capture_task' = NextTask
    /\ start_pc' = "returned"
    /\ UNCHANGED <<is_running, stop_pc, call>>
    /\ UNCHANGED cfgVars
    /\ UNCHANGED storeVars
    /\ UNCHANGED unitVars

\* ---- ImageSequenceService.stop (the shutdown event) -----------------------

\* lines 95-100: up to the await of the cancelled task
Stop ==
    /\ start_pc = "returned"
    /\ stop_pc = "idle"
    /\ Awaiting = {}
    /\ is_running' = FALSE
    /\ IF capture_task # 0 /\ ~Done(capture_task)
       THEN /\ task' = [task EXCEPT ![capture_task].cancel = TRUE]
            /\ stop_pc' = "awaiting"
       ELSE /\ task' = task
            /\ stop_pc' = "returned"
    /\ UNCHANGED <<capture_task, start_pc, call>>
    /\ UNCHANGED cfgVars
    /\ UNCHANGED storeVars
    /\ UNCHANGED unitVars

\* lines 100-104: the awaited task is done
StopResume ==
    /\ stop_pc = "awaiting"
    /\ Done(capture_task)
    /\ stop_pc' = "returned"
    /\ UNCHANGED <<is_running, capture_task, task, start_pc, call>>
    /\ UNCHANGED cfgVars
    /\ UNCHANGED storeVars
    /\ UNCHANGED unitVars

\* ---- POST /config/analytics and ImageSequenceService.reload_config --------

\* The requests the handlers are sent
HttpRequests ==
    { Req1("max_images_per_sequence", JInt(30)),
      Req1("snow_detection_threshold", JFloat(150)) }

\* reload_config, line 118
LoopIsRunning == capture_task # 0 /\ ~Done(capture_task)

\* app.py:561-573 and reload_config lines 112-122: a new ConfigManager
\* updates the file; on success reload_config replaces the service's manager
\* and, if a loop task is running, cancels it and awaits it.
UpdateAnalyticsConfig(h) ==
    /\ start_pc = "returned"
    /\ stop_pc = "idle"
    /\ call[h].pc = "idle"
    /\ Cardinality(Created) + Cardinality(Awaiting) < MaxTasks
    /\ \E updates \in HttpRequests, outcome \in SaveOutcomes :
        LET r == UpdateConfig(LoadConfig(config_file), config_file, updates, outcome)
        IN /\ config_file' = r.file
           /\ IF r.result.status = "success"
              THEN /\ current_config' = LoadConfig(r.file)
                   /\ IF LoopIsRunning
                      THEN /\ task' = [task EXCEPT ![capture_task].cancel = TRUE]
                           /\ call' = [call EXCEPT ![h] =
                                         [pc |-> "awaiting", waits |-> capture_task]]
                      ELSE UNCHANGED <<task, call>>
              ELSE UNCHANGED <<current_config, task, call>>
    /\ UNCHANGED <<result, last_call>>
    /\ UNCHANGED <<is_running, capture_task, start_pc, stop_pc>>
    /\ UNCHANGED storeVars
    /\ UNCHANGED unitVars

\* reload_config, lines 122-128: the awaited task is done; a new one is made
ReloadResume(h) ==
    /\ call[h].pc = "awaiting"
    /\ Done(call[h].waits)
    /\ task' = [task EXCEPT ![NextTask] = NewTask]
    /\ capture_task' = NextTask
    /\ call' = [call EXCEPT ![h] = IdleCall]
    /\ UNCHANGED <<is_running, start_pc, stop_pc>>
    /\ UNCHANGED cfgVars
    /\ UNCHANGED storeVars
    /\ UNCHANGED unitVars

\* app.py:592-603, POST /config/analytics/reset: a new ConfigManager resets
\* the file; the service is not told.
ResetAnalyticsConfig ==
    /\ start_pc = "returned"
    /\ stop_pc = "idle"
    /\ \E outcome \in SaveOutcomes :
        config_file' = ResetToDefaults(config_file, outcome).file
    /\ UNCHANGED <<current_config, result, last_call>>
    /\ UNCHANGED svcVars
    /\ UNCHANGED storeVars
    /\ UNCHANGED unitVars

-----------------------------------------------------------------------------
(* StorageManager, the sequence generation and the part of a capture-loop   *)
(* iteration that works on the image and sequence directories.  The clock   *)
(* counts ticks: a tick is coarser than the one-second resolution of the    *)
(* file names and no longer than the shortest sleep of the loop, so every   *)
(* sleep lasts until the clock has advanced.  The clock also advances       *)
(* inside a stretch of code that never yields; other coroutines run only    *)
(* while the loop task is suspended.                                        *)

MaxTime == 6
WindowTicks == 2      \* settings.sequence_duration_minutes, in ticks
MaxPerSequence == 2   \* settings.max_images_per_sequence
UpdateTicks == 2      \* sequence_update_interval_minutes, in ticks
EvictAgeTicks == 3    \* max_age_hours=12 of enforce_storage_limits, in ticks
MaxStorage == 4       \* settings.max_storage_mb, in units of one file's size

\* _cleanup_old_sequences: sequence_files[3:]
KeepSequences == 3
\* enforce_storage_limits: usage_percent > 90, in hundredths of a percent
CleanupAtPercent == 9000

Min(a, b) == IF a < b THEN a ELSE b

\* images.sort(key=lambda x: x[1], reverse=False): the file names carry the
\* timestamp, so no two files of the directory have the same one
RECURSIVE SortByTimestamp(_)
SortByTimestamp(S) ==
    IF S = {} THEN <<>>
    ELSE LET f == CHOOSE x \in S : \A y \in S : x.ts <= y.ts
         IN <<f>> \o SortByTimestamp(S \ {f})

\* StorageManager.get_recent_images at time t: the files whose mtime is not
\* before the cutoff, each with the timestamp parsed from its name, sorted
\* by that timestamp, cut to the first max_images
get_recent_images(imgs, t, minutes, max_images) ==
    LET cutoff_time == t - minutes
        found == SortByTimestamp({f \in imgs : f.mtime >= cutoff_time})
    IN SubSeq(found, 1, Min(max_images, Len(found)))

\* StorageManager.save_image: the name is snapshot_<timestamp>.jpg and an
\* existing file of that name is overwritten
save_image(imgs, timestamp, t) ==
    {f \in imgs : f.ts # timestamp} \cup {[ts |-> timestamp, mtime |-> t]}

\* StorageManager.get_storage_usage()["usage_percent"], in hundredths
usage_percent(imgs, seqs) ==
    RoundHalfEven((Cardinality(imgs) + Len(seqs)) * 10000, MaxStorage)

\* StorageManager.cleanup_old_files at time t
OldFile(f, t, max_age) == f.mtime < t - max_age
KeptImages(imgs, t, max_age) == {f \in imgs : ~OldFile(f, t, max_age)}
KeptSequences(seqs, t, max_age) ==
    SelectSeq(seqs, LAMBDA f : ~OldFile(f, t, max_age))

\* _cleanup_old_sequences over the directory sorted by mtime (seqs is kept
\* oldest first).  The files after the newest three are unlinked from the
\* newest of them to the oldest; an unlink that raises ends the loop, which
\* leaves the `failed` oldest files in place.
cleanup_old_sequences_KeepsFour(seqs, failed) ==
    LET excess == IF Len(seqs) > KeepSequences + 1
                  THEN Len(seqs) - (KeepSequences + 1) ELSE 0
    IN SubSeq(seqs, 1, Min(failed, excess)) \o SubSeq(seqs, excess + 1, Len(seqs))

cleanup_old_sequences(seqs, failed) ==
    LET excess == IF Len(seqs) > KeepSequences
                  THEN Len(seqs) - KeepSequences ELSE 0
    IN SubSeq(seqs, 1, Min(failed, excess)) \o SubSeq(seqs, excess + 1, Len(seqs))

\* the file a write creates or truncates under its final name
WithoutName(seqs, n) == SelectSeq(seqs, LAMBDA f : f.name # n)
Written(seqs, n, t, whole) ==
    Append(WithoutName(seqs, n), [name |-> n, mtime |-> t, complete |-> whole])

\* how the last generation that opened its file ended, and how many files
\* its _cleanup_old_sequences unlinked
NoGeneration == [ending |-> "none", deleted |-> 0]

\* get_latest_sequence: max(sequence_files, key=st_mtime), None without files
NoFile == [found |-> FALSE, name |-> -1, complete |-> FALSE, during |-> FALSE]
get_latest_sequence(seqs) ==
    IF seqs = <<>> THEN NoFile
    ELSE [found |-> TRUE, name |-> seqs[Len(seqs)].name,
          complete |-> seqs[Len(seqs)].complete, during |-> FALSE]

\* The loop task inside an iteration.  pc is where it stands; since is when
\* its sleep began; frame_ts the timestamp capture_snapshot returned; recent
\* and recent_at the list get_recent_images returned to generate_sequence
\* and the time of that call; seq_now the `now` of _check_sequence_update;
\* seq_name the time in the sequence file name.  checked, assembled and
\* evicted record what the iteration has done so far.
IdleLoop ==
    [pc |-> "sleeping", since |-> -1, frame_ts |-> -1, recent |-> <<>>,
     recent_at |-> -1, seq_now |-> -1, seq_name |-> -1, stage |-> 0,
     checked |-> FALSE, assembled |-> FALSE, evicted |-> FALSE]

\* the awaits of the loop task that suspend it: asyncio.sleep, the ffmpeg
\* subprocess of capture_snapshot, the rsync subprocess of sync_to_vps
SuspendedPcs_WriteYields == {"sleeping", "capturing", "syncing", "writing"}

SuspendedPcs_LoadYields == {"sleeping", "capturing", "syncing", "loading"}

SuspendedPcs == {"sleeping", "capturing", "syncing"}

\* another coroutine of the event loop can run: the loop task is suspended
\* or has ended
LoopYields == lp.pc \in SuspendedPcs \/ lp.pc = "done"

\* generate_sequence from the selection of the frames to its return
AssemblyPcs == {"loading", "assembling", "writing", "syncing"}

\* _capture_loop after save_image: _check_sequence_update, then
\* enforce_storage_limits, then the sleep
Stages == <<"check", "enforce">>

Advance(l) ==
    IF l.stage < Len(Stages)
    THEN [l EXCEPT !.pc = Stages[l.stage + 1], !.stage = l.stage + 1]
    ELSE [l EXCEPT !.pc = "sleeping", !.since = now, !.stage = 0]

\* _check_sequence_update: is an assembly due at this time
Due ==
    \/ last_sequence_update = -1
    \/ now - last_sequence_update >= UpdateTicks

\* await self.generate_sequence(); self.last_sequence_update = now.  The
\* value generate_sequence returned (a path, or None after a failure) is
\* not looked at.
RecordUpdate_OnlyOnSuccess(path, seq_now) ==
    IF path THEN seq_now ELSE last_sequence_update

RecordUpdate(path, seq_now) == seq_now

\* _check_sequence_update after generate_sequence returned
CheckReturns(l) ==
    Advance([l EXCEPT !.checked = TRUE, !.recent = <<>>, !.recent_at = -1,
                      !.seq_now = -1, !.seq_name = -1])

Tick ==
    /\ now < MaxTime
    /\ now' = now + 1
    /\ UNCHANGED <<images, sequences, last_sequence_update, vps_enabled,
                   lp, latest, gen>>
    /\ UNCHANGED <<cfgVars, svcVars>>
    /\ UNCHANGED unitVars

\* while self.is_running: await self.camera.capture_snapshot()
Wake ==
    /\ lp.pc = "sleeping"
    /\ now > lp.since
    /\ lp' = [IdleLoop EXCEPT !.pc = "capturing"]
    /\ UNCHANGED <<now, images, sequences, last_sequence_update, vps_enabled,
                   latest, gen>>
    /\ UNCHANGED <<cfgVars, svcVars>>
    /\ UNCHANGED unitVars

\* capture_snapshot returns the frame and datetime.now(), or raises
\* CameraError and the loop sleeps
CaptureSnapshot ==
    /\ lp.pc = "capturing"
    /\ \E ok \in BOOLEAN :
         lp' = IF ok THEN [lp EXCEPT !.pc = "captured", !.frame_ts = now]
               ELSE [lp EXCEPT !.pc = "sleeping", !.since = now]
    /\ UNCHANGED <<now, images, sequences, last_sequence_update, vps_enabled,
                   latest, gen>>
    /\ UNCHANGED <<cfgVars, svcVars>>
    /\ UNCHANGED unitVars

\* await self.storage.save_image(image_data, timestamp); a failed write is
\* re-raised and the loop sleeps
SaveImage ==
    /\ lp.pc = "captured"
    /\ \E ok \in BOOLEAN :
         IF ok
         THEN /\ images' = save_image(images, lp.frame_ts, now)
              /\ lp' = Advance([lp EXCEPT !.frame_ts = -1])
         ELSE /\ images' = images
              /\ lp' = [lp EXCEPT !.pc = "sleeping", !.since = now,
                                  !.frame_ts = -1]
    /\ UNCHANGED <<now, sequences, last_sequence_update, vps_enabled,
                   latest, gen>>
    /\ UNCHANGED <<cfgVars, svcVars>>
    /\ UNCHANGED unitVars

\* _check_sequence_update up to the first thing generate_sequence does: the
\* call of get_recent_images and the test of its result
CheckSequenceUpdate ==
    /\ lp.pc = "check"
    /\ LET recent_images ==
               get_recent_images(images, now, WindowTicks, MaxPerSequence)
       IN IF ~Due
          THEN /\ lp' = CheckReturns(lp)
               /\ UNCHANGED last_sequence_update
          ELSE IF recent_images = <<>>
          THEN /\ lp' = CheckReturns(lp)
               /\ last_sequence_update' = RecordUpdate(FALSE, now)
          ELSE /\ lp' = [lp EXCEPT !.pc = "loading", !.recent = recent_images,
                                   !.recent_at = now, !.seq_now = now]
               /\ UNCHANGED last_sequence_update
    /\ UNCHANGED <<now, images, sequences, vps_enabled, latest, gen>>
    /\ UNCHANGED <<cfgVars, svcVars>>
    /\ UNCHANGED unitVars

\* generate_sequence: the loop that opens and reads the selected files (a
\* file that cannot be opened is skipped), then the sequence file name
LoadFrames ==
    /\ lp.pc = "loading"
    /\ LET images_with_data ==
               SelectSeq(lp.recent, LAMBDA f : \E g \in images : g.ts = f.ts)
       IN IF images_with_data = <<>>
          THEN /\ lp' = CheckReturns(lp)
               /\ last_sequence_update' = RecordUpdate(FALSE, lp.seq_now)
          ELSE /\ lp' = [lp EXCEPT !.pc = "assembling", !.recent = <<>>,
                                   !.recent_at = -1, !.seq_name = now]
               /\ UNCHANGED last_sequence_update
    /\ UNCHANGED <<now, images, sequences, vps_enabled, latest, gen>>
    /\ UNCHANGED <<cfgVars, svcVars>>
    /\ UNCHANGED unitVars

\* create_image_sequence_with_analytics: the frames are prepared, then
\* frames[0].save(output_path, ...) opens the file under its final name.
\* An exception before that leaves no file and generate_sequence returns None.
BeginWrite ==
    /\ lp.pc = "assembling"
    /\ \E ok \in BOOLEAN :
         IF ok
         THEN /\ sequences' = Written(sequences, lp.seq_name, now, FALSE)
              /\ lp' = [lp EXCEPT !.pc = "writing"]
              /\ UNCHANGED last_sequence_update
         ELSE /\ sequences' = sequences
              /\ lp' = CheckReturns(lp)
              /\ last_sequence_update' = RecordUpdate(FALSE, lp.seq_now)
    /\ UNCHANGED <<now, images, vps_enabled, latest, gen>>
    /\ UNCHANGED <<cfgVars, svcVars>>
    /\ UNCHANGED unitVars

\* frames[0].save returns or raises.  When it returns, _cleanup_old_sequences
\* runs and then either sync_to_vps is awaited or generate_sequence returns.
\* When it raises, nothing in generate_sequence touches the file again: the
\* encoder either removed what it had written or left it truncated.
EndWrite ==
    /\ lp.pc = "writing"
    /\ \/ LET whole == Written(sequences, lp.seq_name, now, TRUE)
              excess == IF Len(whole) > KeepSequences
                        THEN Len(whole) - KeepSequences ELSE 0
          IN \E failed \in 0..excess :
               /\ sequences' = cleanup_old_sequences(whole, failed)
               /\ gen' = [ending |-> IF failed = 0 THEN "clean"
                                      ELSE "cleanup_failed",
                           deleted |-> excess - failed]
               /\ IF vps_enabled
                  THEN /\ lp' = [lp EXCEPT !.pc = "syncing", !.assembled = TRUE]
                       /\ UNCHANGED last_sequence_update
                  ELSE /\ lp' = CheckReturns([lp EXCEPT !.assembled = TRUE])
                       /\ last_sequence_update' = RecordUpdate(TRUE, lp.seq_now)
       \/ \E left \in BOOLEAN :
               /\ sequences' = IF left
                               THEN Written(sequences, lp.seq_name, now, FALSE)
                               ELSE WithoutName(sequences, lp.seq_name)
               /\ gen' = [ending |-> "write_failed", deleted |-> 0]
               /\ lp' = CheckReturns(lp)
               /\ last_sequence_update' = RecordUpdate(FALSE, lp.seq_now)
    /\ UNCHANGED <<now, images, vps_enabled, latest>>
    /\ UNCHANGED <<cfgVars, svcVars>>
    /\ UNCHANGED unitVars

\* sync_to_vps returns (its failures are logged), generate_sequence returns
\* the path and _check_sequence_update stores its `now`
SyncReturns ==
    /\ lp.pc = "syncing"
    /\ lp' = CheckReturns(lp)
    /\ last_sequence_update' = RecordUpdate(TRUE, lp.seq_now)
    /\ UNCHANGED <<now, images, sequences, vps_enabled, latest, gen>>
    /\ UNCHANGED <<cfgVars, svcVars>>
    /\ UNCHANGED unitVars

\* await self.storage.enforce_storage_limits()
EnforceStorageLimits ==
    /\ lp.pc = "enforce"
    /\ IF usage_percent(images, sequences) > CleanupAtPercent
       THEN /\ images' = KeptImages(images, now, EvictAgeTicks)
            /\ sequences' = KeptSequences(sequences, now, EvictAgeTicks)
            /\ lp' = Advance([lp EXCEPT !.evicted =
                                 KeptImages(images, now, EvictAgeTicks) # images])
       ELSE /\ UNCHANGED <<images, sequences>>
            /\ lp' = Advance(lp)
    /\ UNCHANGED <<now, last_sequence_update, vps_enabled, latest, gen>>
    /\ UNCHANGED <<cfgVars, svcVars>>
    /\ UNCHANGED unitVars

\* stop() or reload_config() calls self.capture_task.cancel() while the task
\* is suspended: CancelledError is raised at the await the task is in.  It
\* is no Exception, so no except clause of capture_snapshot, sync_to_vps,
\* generate_sequence, _check_sequence_update or _capture_loop catches it
\* and the task ends there.
CancelLoop ==
    /\ lp.pc \in SuspendedPcs
    /\ lp' = [IdleLoop EXCEPT !.pc = "done"]
    /\ UNCHANGED <<now, images, sequences, last_sequence_update, vps_enabled,
                   latest, gen>>
    /\ UNCHANGED <<cfgVars, svcVars>>
    /\ UNCHANGED unitVars

\* enforce_storage_limits called from another capture-loop task (two
\* overlapping reload_config calls leave more than one running); that task
\* runs only while this one is suspended
OtherLoopEnforces ==
    /\ LoopYields
    /\ usage_percent(images, sequences) > CleanupAtPercent
    /\ images' = KeptImages(images, now, EvictAgeTicks)
    /\ sequences' = KeptSequences(sequences, now, EvictAgeTicks)
    /\ UNCHANGED <<now, last_sequence_update, vps_enabled, lp, latest, gen>>
    /\ UNCHANGED <<cfgVars, svcVars>>
    /\ UNCHANGED unitVars

\* a request handler of app.py calls get_latest_sequence(); it runs only
\* while the loop task is suspended
GetLatestSequence ==
    /\ LoopYields
    /\ latest' = IF sequences = <<>> THEN NoFile
                 ELSE [get_latest_sequence(sequences) EXCEPT
                          !.during = lp.pc \in AssemblyPcs]
    /\ UNCHANGED <<now, images, sequences, last_sequence_update, vps_enabled,
                   lp, gen>>
    /\ UNCHANGED <<cfgVars, svcVars>>
    /\ UNCHANGED unitVars

-----------------------------------------------------------------------------
(* RTSPCamera.capture_snapshot: one call, the ffmpeg subprocess it starts    *)
(* and the temporary file both of them use.                                  *)

\* temp is the temporary file: "absent", or what it holds; proc the ffmpeg
\* subprocess; raised the exception type the call ended with and cause what
\* went wrong; data and time what the call returned.
NoCapture ==
    [pc |-> "idle", temp |-> "absent", proc |-> "none", rc |-> 0,
     exited_at |-> -1, raised |-> "none", cause |-> "none",
     data |-> "none", time |-> -1]

\* the exception types that derive from Exception; CancelledError does not
Exceptions ==
    {"TimeoutError", "FileNotFoundError", "CameraError", "OSError",
     "UnicodeDecodeError"}

\* the except clauses of capture_snapshot: what leaves the call when exc is
\* raised inside its try block
Surface_NoCatchAll(exc) ==
    IF exc = "TimeoutError" THEN "CameraError"
    ELSE IF exc = "FileNotFoundError" THEN "CameraError"
    ELSE exc

Surface(exc) ==
    IF exc = "TimeoutError" THEN "CameraError"
    ELSE IF exc = "FileNotFoundError" THEN "CameraError"
    ELSE IF exc \in Exceptions THEN "CameraError"
    ELSE exc

\* an exception leaves the try block: the finally clause unlinks the
\* temporary file when temp_path was assigned and the file exists
Raise(c, exc, why) ==
    [c EXCEPT !.pc = IF Surface(exc) = "CancelledError"
                     THEN "cancelled" ELSE "raised",
              !.raised = Surface(exc), !.cause = why, !.temp = "absent"]

CamFinished == {"returned", "raised", "cancelled"}

camOthers == <<cfgVars, svcVars, images, sequences, last_sequence_update,
               vps_enabled, lp, latest, gen, road, api, asm, ovl, iter, wx,
               surf, mir, hist>>

\* tempfile.NamedTemporaryFile(suffix='.jpg', delete=False), then
\* await asyncio.create_subprocess_exec(*cmd, ...)
CallCapture ==
    /\ cam.pc = "idle"
    /\ \E made \in BOOLEAN :
         cam' = IF made THEN [cam EXCEPT !.pc = "spawning", !.temp = "empty"]
                ELSE Raise(cam, "OSError", "tempfile")
    /\ UNCHANGED <<now, camOthers>>

\* create_subprocess_exec returns the process or raises FileNotFoundError
\* when there is no ffmpeg binary; then
\* await asyncio.wait_for(process.communicate(), timeout=30)
SpawnReturns ==
    /\ cam.pc = "spawning"
    /\ \E found \in BOOLEAN :
         cam' = IF found
                THEN [cam EXCEPT !.pc = "communicating", !.proc = "running"]
                ELSE Raise(cam, "FileNotFoundError", "no_binary")
    /\ UNCHANGED <<now, camOthers>>

\* ffmpeg -y ... temp_path: the running subprocess writes, truncates or
\* removes its output file
FfmpegWrites ==
    /\ cam.proc = "running"
    /\ \E content \in {"absent", "empty", "invalid", "valid"} :
         cam' = [cam EXCEPT !.temp = content]
    /\ UNCHANGED <<now, camOthers>>

FfmpegExits ==
    /\ cam.proc = "running"
    /\ \E rc \in {0, 1} :
         cam' = [cam EXCEPT !.proc = "exited", !.rc = rc, !.exited_at = now]
    /\ UNCHANGED <<now, camOthers>>

\* communicate() returned: the return code, the output file, the image
\* validation, datetime.now(), the return, the finally clause
CommunicateReturns ==
    /\ cam.pc = "communicating"
    /\ cam.proc = "exited"
    /\ \E decodable, readable \in BOOLEAN :
         cam' = IF cam.rc # 0
                THEN IF decodable THEN Raise(cam, "CameraError", "exit_code")
                     ELSE Raise(cam, "UnicodeDecodeError", "exit_code")
                ELSE IF cam.temp \in {"absent", "empty"}
                THEN Raise(cam, "CameraError", "no_data")
                ELSE IF ~readable THEN Raise(cam, "OSError", "read")
                ELSE IF cam.temp = "invalid"
                THEN Raise(cam, "CameraError", "invalid")
                ELSE [cam EXCEPT !.pc = "returned", !.data = cam.temp,
                                 !.time = now, !.temp = "absent"]
    /\ UNCHANGED <<now, camOthers>>

\* wait_for gives up after 30 s: it cancels communicate() and raises
\* TimeoutError; nothing terminates the subprocess
CommunicateTimesOut ==
    /\ cam.pc = "communicating"
    /\ cam.proc = "running"
    /\ cam' = Raise(cam, "TimeoutError", "timeout")
    /\ UNCHANGED <<now, camOthers>>

\* the task that awaits capture_snapshot is cancelled at one of its awaits
CancelCapture ==
    /\ cam.pc \in {"spawning", "communicating"}
    /\ cam' = Raise(cam, "CancelledError", "cancel")
    /\ UNCHANGED <<now, camOthers>>

-----------------------------------------------------------------------------
(* SnowAnalytics._determine_road_status.  Coverages are in thousandths,     *)
(* the temperature in tenths of a degree Fahrenheit, the snow depth in      *)
(* tenths of an inch.                                                       *)

SurfaceConditions ==
    {"snow_covered", "partial_snow", "icy", "wet", "damp", "clean_dry",
     "dry", "unknown"}

\* the same ladder with the test for possible ice before the test for ice
determine_road_status_IcePossibleFirst(surface_condition, snow_coverage, ice_coverage, wet_coverage, temperature, snow_depth) ==
    IF surface_condition = "snow_covered" \/ snow_coverage > 700
    THEN IF snow_depth > 20 \/ temperature < 280
         THEN "Hazardous" ELSE "Slippery"
    ELSE IF surface_condition = "partial_snow" \/ snow_coverage > 300
    THEN "Slippery"
    ELSE IF ice_coverage > 100 /\ temperature < 320
    THEN "Ice Possible"
    ELSE IF surface_condition = "icy" \/ ice_coverage > 300
    THEN "Icy - Hazardous"
    ELSE IF surface_condition = "wet" \/ wet_coverage > 500
    THEN IF temperature < 350 THEN "Wet - Ice Risk" ELSE "Wet"
    ELSE IF surface_condition = "damp" \/ wet_coverage > 200
    THEN "Damp"
    ELSE IF temperature < 320 /\ wet_coverage > 100
    THEN "Freezing Conditions"
    ELSE "Clear"

determine_road_status(surface_condition, snow_coverage, ice_coverage, wet_coverage, temperature, snow_depth) ==
    IF surface_condition = "snow_covered" \/ snow_coverage > 700
    THEN IF snow_depth > 20 \/ temperature < 280
         THEN "Hazardous" ELSE "Slippery"
    ELSE IF surface_condition = "partial_snow" \/ snow_coverage > 300
    THEN "Slippery"
    ELSE IF surface_condition = "icy" \/ ice_coverage > 300
    THEN "Icy - Hazardous"
    ELSE IF ice_coverage > 100 /\ temperature < 320
    THEN "Ice Possible"
    ELSE IF surface_condition = "wet" \/ wet_coverage > 500
    THEN IF temperature < 350 THEN "Wet - Ice Risk" ELSE "Wet"
    ELSE IF surface_condition = "damp" \/ wet_coverage > 200
    THEN "Damp"
    ELSE IF temperature < 320 /\ wet_coverage > 100
    THEN "Freezing Conditions"
    ELSE IF surface_condition = "clean_dry"
            \/ (snow_coverage < 100 /\ wet_coverage < 100)
    THEN "Clear"
    ELSE "Clear"

\* the arguments of a call: values on both sides of every threshold
RoadInputs ==
    [surface_condition : SurfaceConditions,
     snow_coverage : {0, 300, 301, 700, 701},
     ice_coverage : {0, 100, 101, 300, 301},
     wet_coverage : {0, 100, 101, 200, 201, 500, 501},
     temperature : {279, 280, 319, 320, 349, 350},
     snow_depth : {20, 21},
     label : {"none"}]

NoRoad ==
    [surface_condition |-> "unknown", snow_coverage |-> 0, ice_coverage |-> 0,
     wet_coverage |-> 0, temperature |-> 450, snow_depth |-> 0,
     label |-> "none"]

roadOthers == <<cfgVars, svcVars, storeVars, cam, api, asm, ovl, iter, wx,
                surf, mir, hist>>

DetermineRoadStatus ==
    /\ road.label = "none"
    /\ road' = [road EXCEPT !.label =
                   determine_road_status(road.surface_condition,
                       road.snow_coverage, road.ice_coverage,
                       road.wet_coverage, road.temperature, road.snow_depth)]
    /\ UNCHANGED roadOthers

-----------------------------------------------------------------------------
(* StorageManager called directly: save_image with timestamps of the        *)
(* caller's choice and get_recent_images with windows and limits of the     *)
(* caller's choice.  Here a tick is the one-second resolution of the file   *)
(* names.                                                                   *)

MaxSaves == 3

\* saves counts the save_image calls and first_at is the time of the first;
\* recent is what the last get_recent_images(minutes, max_images) call
\* returned, at the time of that call and seen the number of save_image
\* calls made before it
NoApiCall ==
    [saves |-> 0, first_at |-> -1, recent |-> <<>>, at |-> -1, seen |-> 0,
     minutes |-> 0, max_images |-> 0]

apiOthers == <<cfgVars, svcVars, sequences, last_sequence_update, vps_enabled,
               lp, latest, gen, cam, road, asm, ovl, iter, wx, surf, mir,
               hist>>

\* await storage.save_image(image_data, timestamp) with a timestamp of the
\* current or the previous second
CallSaveImage ==
    /\ api.saves < MaxSaves
    /\ \E timestamp \in {now - 1, now} :
         /\ timestamp >= 0
         /\ images' = save_image(images, timestamp, now)
    /\ api' = [api EXCEPT !.saves = @ + 1,
                           !.first_at = IF api.saves = 0 THEN now ELSE @]
    /\ UNCHANGED <<now, apiOthers>>

\* await storage.get_recent_images(minutes, max_images)
CallGetRecentImages ==
    /\ \E minutes \in 1..WindowTicks, max_images \in 1..MaxSaves :
         api' = [api EXCEPT
                   !.recent = get_recent_images(images, now, minutes, max_images),
                   !.at = now, !.seen = api.saves,
                   !.minutes = minutes, !.max_images = max_images]
    /\ UNCHANGED <<now, images, apiOthers>>

-----------------------------------------------------------------------------
(* ImageProcessor.create_image_sequence_with_analytics, called directly     *)
(* with a list of (bytes, timestamp) and from                               *)
(* ImageSequenceService.generate_sequence with the files that               *)
(* get_recent_images selected.  A frame is its picture (content), the        *)
(* minute of its timestamp, and whether its file can be read and its bytes  *)
(* decoded.  Contents with different numbers are pictures that stay         *)
(* different after resizing and quantization.  Writing the artifact         *)
(* succeeds here; a failing write is part of EndWrite above.                *)

MaxFrames == 3
MaxContent == 2

\* rounded_minute = (timestamp.minute // 5) * 5
FiveMinutes == 5

\* minutes on both sides of a five-minute boundary
Stamps == {FiveMinutes - 1, FiveMinutes, FiveMinutes + 1}

FileStates == {"ok", "unreadable", "corrupt"}

FrameFiles == [content : 1..MaxContent, minute : Stamps, state : FileStates]

FrameLists == UNION {[1..k -> FrameFiles] : k \in 0..MaxFrames}

\* get_recent_images returns the files sorted by timestamp, oldest first
Chronological(l) ==
    \A i, j \in 1..Len(l) : i < j => l[i].minute <= l[j].minute

IsOk(f) == f.state = "ok"
IsReadable(f) == f.state # "unreadable"

NoArtifact == [exists |-> FALSE, frames |-> <<>>]

\* the picture with the location and the sanitized time drawn on it: the
\* text carries the minute rounded down to a multiple of five
add_timestamp_overlay(f) ==
    [content |-> f.content, label |-> (f.minute \div FiveMinutes) * FiveMinutes]

RECURSIVE Overlaid(_)
Overlaid(l) ==
    IF l = <<>> THEN <<>>
    ELSE <<add_timestamp_overlay(Head(l))>> \o Overlaid(Tail(l))

\* frames[0].save(output_path, save_all=True, append_images=frames[1:],
\* duration=frame_duration, loop=0, ...): Pillow's GIF writer stores a frame
\* that is identical to the one before it by adding its duration to that
\* frame's duration
RECURSIVE save_all_DropsRepeats(_, _, _)
save_all_DropsRepeats(frames, duration, out) ==
    IF frames = <<>> THEN out
    ELSE IF out # <<>> /\ out[Len(out)].image = Head(frames)
         THEN save_all_DropsRepeats(Tail(frames), duration, out)
         ELSE save_all_DropsRepeats(Tail(frames), duration,
                  Append(out, [image |-> Head(frames), duration |-> duration]))

RECURSIVE save_all(_, _, _)
save_all(frames, duration, out) ==
    IF frames = <<>> THEN out
    ELSE IF out # <<>> /\ out[Len(out)].image = Head(frames)
         THEN save_all(Tail(frames), duration,
                  [out EXCEPT ![Len(out)].duration = @ + duration])
         ELSE save_all(Tail(frames), duration,
                  Append(out, [image |-> Head(frames), duration |-> duration]))

\* duration_seconds, in units of one configured frame duration
FrameDuration == 1

\* without the test for an empty list: no frame, nothing saved, and the
\* path returned
create_image_sequence_with_analytics_NoEmptyTest(image_list, target) ==
    IF \E i \in 1..Len(image_list) : ~IsOk(image_list[i])
    THEN [value |-> "raised", exc |-> "UnidentifiedImageError", file |-> target]
    ELSE [value |-> "path", exc |-> "none",
          file |-> IF image_list = <<>> THEN target
                   ELSE [exists |-> TRUE,
                         frames |-> save_all(Overlaid(image_list), FrameDuration, <<>>)]]

\* the outcome of one call and the file at output_path after it
create_image_sequence_with_analytics(image_list, target) ==
    IF image_list = <<>>
    THEN [value |-> "raised", exc |-> "ValueError", file |-> target]
    ELSE IF \E i \in 1..Len(image_list) : ~IsOk(image_list[i])
    THEN [value |-> "raised", exc |-> "UnidentifiedImageError", file |-> target]
    ELSE [value |-> "path", exc |-> "none",
          file |-> [exists |-> TRUE,
                    frames |-> save_all(Overlaid(image_list), FrameDuration, <<>>)]]

\* selected is the list the caller starts from, images the list handed to
\* the assembler, target the file at the output path, value what the entry
\* point gave back ("path", "None" or "raised") and exc what the assembler
\* raised
NoAssembly ==
    [pc |-> "idle", via |-> "none", selected |-> <<>>, images |-> <<>>,
     target |-> NoArtifact, value |-> "none", exc |-> "none"]

asmOthers == <<cfgVars, svcVars, storeVars, cam, road, api, ovl, iter, wx,
               surf, mir, hist>>

\* a caller awaits create_image_sequence_with_analytics(images, output_path)
CallCreateImageSequence ==
    /\ asm.pc = "idle"
    /\ \A i \in 1..Len(asm.selected) : IsReadable(asm.selected[i])
    /\ asm' = [asm EXCEPT !.pc = "called", !.via = "direct",
                           !.images = asm.selected]
    /\ UNCHANGED asmOthers

\* generate_sequence up to the call of the assembler: returns None when no
\* recent image is found or none can be read, and leaves out the files whose
\* open() or read() fails
LoadImageData ==
    /\ asm.pc = "idle"
    /\ Chronological(asm.selected)
    /\ LET images_with_data == SelectSeq(asm.selected, IsReadable)
       IN  asm' = IF images_with_data = <<>>
                  THEN [asm EXCEPT !.pc = "finished", !.via = "generate",
                                   !.value = "None"]
                  ELSE [asm EXCEPT !.pc = "called", !.via = "generate",
                                   !.images = images_with_data]
    /\ UNCHANGED asmOthers

\* the body of create_image_sequence_with_analytics, which never yields
CreateImageSequenceRuns ==
    /\ asm.pc = "called"
    /\ LET r == create_image_sequence_with_analytics(asm.images, asm.target)
       IN  asm' = [asm EXCEPT
                     !.pc = IF asm.via = "direct" THEN "finished" ELSE "created",
                     !.target = r.file, !.value = r.value, !.exc = r.exc]
    /\ UNCHANGED asmOthers

\* generate_sequence after the assembler: the path, or None when the
\* assembler raised
GenerateSequenceReturns ==
    /\ asm.pc = "created"
    /\ asm' = [asm EXCEPT !.pc = "finished",
                           !.value = IF asm.exc = "none" THEN "path" ELSE "None"]
    /\ UNCHANGED asmOthers

-----------------------------------------------------------------------------
(* One frame on its way through the body of the assembler's loop:           *)
(* add_timestamp_overlay, then, when analytics data is given and the style  *)
(* is not "none", create_minimal_overlay or create_analytics_overlay.       *)
(* fault says what goes wrong: "decode" (Image.open cannot read the bytes)  *)
(* and "stamp" (drawing the text fails) inside add_timestamp_overlay,       *)
(* "analytics" inside the analytics overlay, "import" in the assembler's    *)
(* own conversion code around it.                                           *)

OverlayStyles == {"full", "minimal", "mobile", "none"}

OverlayFaults == {"none", "decode", "stamp", "analytics", "import"}

\* a picture: the frame it shows, the time drawn on it (-1: none) and the
\* analytics panel drawn on it
Picture(content, label, panel) ==
    [content |-> content, label |-> label, panel |-> panel]

\* the frame as it is handed to the assembler
Original(f) == Picture(f.content, -1, "none")

\* ImageProcessor.add_timestamp_overlay: the processed picture, or the
\* exception, logged and raised again
stamp_frame(f, fault) ==
    IF fault \in {"decode", "stamp"}
    THEN [raised |-> TRUE, picture |-> Original(f)]
    ELSE [raised |-> FALSE,
          picture |-> Picture(f.content, add_timestamp_overlay(f).label, "none")]

\* AnalyticsOverlay.create_minimal_overlay and create_analytics_overlay:
\* the picture with the panel, or the picture as it came in when anything
\* fails
create_overlay(picture, style, fault) ==
    IF fault = "analytics" THEN picture
    ELSE [picture EXCEPT !.panel = IF style = "minimal" THEN "minimal" ELSE "full"]

NoOverlay ==
    [pc |-> "idle", frame |-> [content |-> 1, minute |-> FiveMinutes],
     analytics_data |-> FALSE, overlay_style |-> "none", fault |-> "none",
     picture |-> Picture(1, -1, "none")]

OverlayInputs ==
    {[NoOverlay EXCEPT !.frame = f, !.analytics_data = a,
                       !.overlay_style = s, !.fault = x] :
        f \in [content : 1..MaxContent, minute : Stamps],
        a \in BOOLEAN, s \in OverlayStyles, x \in OverlayFaults}

ovlOthers == <<cfgVars, svcVars, storeVars, cam, road, api, asm, iter, wx,
               surf, mir, hist>>

\* processed_image = await self.add_timestamp_overlay(image_data, timestamp)
\* inside the assembler's try block, whose except clause raises again
TimestampOverlay ==
    /\ ovl.pc = "idle"
    /\ LET r == stamp_frame(ovl.frame, ovl.fault)
       IN  ovl' = [ovl EXCEPT !.pc = IF r.raised THEN "raised" ELSE "stamped",
                               !.picture = r.picture]
    /\ UNCHANGED ovlOthers

\* the analytics overlay block and frames.append(frame)
AnalyticsOverlayStep ==
    /\ ovl.pc = "stamped"
    /\ ovl' = [ovl EXCEPT
                 !.pc = "appended",
                 !.picture =
                    IF ovl.analytics_data /\ ovl.overlay_style # "none"
                          /\ ovl.fault # "import"
                    THEN create_overlay(ovl.picture, ovl.overlay_style, ovl.fault)
                    ELSE ovl.picture]
    /\ UNCHANGED ovlOthers

-----------------------------------------------------------------------------
(* The iterations of one _capture_loop, step by step, with is_running set.  *)
(* The record has the fields of a task that OnCameraError and OnUnexpected  *)
(* change, and: analytics (self.analytics is not None), captured (the       *)
(* capture of this iteration succeeded), analysis, saved, check and         *)
(* enforce (how the steps of this iteration went), last_capture and         *)
(* prev_capture (how the latest capture attempt and the one before it       *)
(* ended).                                                                  *)

NoIteration ==
    [pc |-> "none", analytics |-> FALSE, consecutive_failures |-> 0,
     sleep |-> 0, outcome |-> "none", streak |-> 0, captured |-> FALSE,
     analysis |-> "none", saved |-> FALSE, check |-> "none",
     enforce |-> "none", last_capture |-> "none", prev_capture |-> "none"]

iterOthers == <<cfgVars, svcVars, storeVars, cam, road, api, asm, ovl, wx,
                surf, mir, hist>>

\* the exception of the analysis step leaves the inner try block
OnAnalysisFailure_Escapes(rec) == OnUnexpected(rec)

\* lines 149-156: the inner except clause logs a warning, analytics_result
\* stays None and the iteration goes on
OnAnalysisFailure(rec) == [rec EXCEPT !.pc = "analyzed", !.analysis = "failed"]

\* line 144: capture_snapshot returns a frame or raises CameraError
IterCapture ==
    /\ iter.pc = "top"
    /\ \E ok \in BOOLEAN :
         LET rec == [iter EXCEPT !.captured = ok, !.analysis = "none",
                                 !.saved = FALSE, !.check = "none",
                                 !.enforce = "none",
                                 !.prev_capture = iter.last_capture,
                                 !.last_capture =
                                     IF ok THEN "ok" ELSE "camera_error"]
         IN  /\ ~ok => iter.consecutive_failures < MaxFailures
             /\ iter' = IF ok THEN [rec EXCEPT !.pc = "captured"]
                        ELSE OnCameraError(rec)
    /\ UNCHANGED iterOthers

\* lines 146-156: SnowAnalytics has no method analyze_raw_image, so with
\* analytics on the call raises AttributeError
IterAnalyze ==
    /\ iter.pc = "captured"
    /\ iter' = IF iter.analytics THEN OnAnalysisFailure(iter)
               ELSE [iter EXCEPT !.pc = "analyzed"]
    /\ UNCHANGED iterOthers

\* lines 158-162: save_image writes the file, or logs and raises again;
\* after it the counter is reset
IterSave ==
    /\ iter.pc = "analyzed"
    /\ \E ok \in BOOLEAN :
         /\ ~ok => iter.consecutive_failures < MaxFailures
         /\ iter' = IF ok
                    THEN [iter EXCEPT !.pc = "saved", !.saved = TRUE,
                                      !.consecutive_failures = 0,
                                      !.streak = 0]
                    ELSE OnUnexpected(iter)
    /\ UNCHANGED iterOthers

\* line 165: _check_sequence_update catches whatever goes wrong in it
IterCheck ==
    /\ iter.pc = "saved"
    /\ \E how \in {"ok", "failed"} :
         iter' = [iter EXCEPT !.pc = "checked", !.check = how]
    /\ UNCHANGED iterOthers

\* line 168: enforce_storage_limits catches whatever goes wrong in it
IterEnforce ==
    /\ iter.pc = "checked"
    /\ \E how \in {"ok", "failed"} :
         iter' = [iter EXCEPT !.pc = "enforced", !.enforce = how]
    /\ UNCHANGED iterOthers

\* lines 171-173: the capture interval of the live configuration
IterSleep ==
    /\ iter.pc = "enforced"
    /\ iter' = [iter EXCEPT !.pc = "sleeping", !.outcome = "ok",
                             !.sleep = get_capture_interval(current_config)]
    /\ UNCHANGED iterOthers

\* the sleep is over and `while self.is_running` holds
IterWake ==
    /\ iter.pc = "sleeping"
    /\ iter' = [iter EXCEPT !.pc = "top"]
    /\ UNCHANGED iterOthers

-----------------------------------------------------------------------------
(* WeatherDataClient.get_current_weather: the cache of snapshots by         *)
(* coordinate pair and a clock in seconds that moves between the calls.     *)

MaxSteps == 4

\* self.cache_duration = 300
cache_duration == 300

\* datetime.timedelta keeps days and seconds apart: 0 <= seconds < 86400
SecondsPerDay == 86400

\* cache keys f"weather_{lat}_{lon}"
Coordinates == {"here", "there"}

\* how far the clock moves between two calls
ClockSteps ==
    {1, cache_duration - 1, cache_duration, SecondsPerDay - cache_duration,
     SecondsPerDay}

\* (now - timestamp).seconds for now >= timestamp
timedelta_seconds(delta) == delta % SecondsPerDay

\* clock: datetime.now(); steps: how often it has moved; cache: the time at
\* which the snapshot of each coordinate pair was fetched (-1: no entry);
\* served: where the answer of the last call came from, for which key, and
\* age: how old the cached snapshot of that key was at the call (-1: none)
NoWeather ==
    [clock |-> 0, steps |-> 0, cache |-> [c \in Coordinates |-> -1],
     served |-> "none", key |-> "none", age |-> -1]

wxOthers == <<cfgVars, svcVars, storeVars, cam, road, api, asm, ovl, iter,
              surf, mir, hist>>

\* time passes
WeatherClockMoves ==
    /\ wx.steps < MaxSteps
    /\ \E d \in ClockSteps :
         wx' = [wx EXCEPT !.clock = @ + d, !.steps = @ + 1]
    /\ UNCHANGED wxOthers

\* await get_current_weather(lat, lon): the cached snapshot, or a request
\* to the provider that answers 200 (the snapshot is cached) or fails (the
\* fallback snapshot is returned and nothing is cached)
GetCurrentWeather ==
    /\ \E c \in Coordinates, answered \in BOOLEAN :
         LET age == IF wx.cache[c] < 0 THEN -1 ELSE wx.clock - wx.cache[c]
             hit == wx.cache[c] >= 0 /\ timedelta_seconds(age) < cache_duration
         IN  wx' = IF hit
                   THEN [wx EXCEPT !.served = "cache", !.key = c, !.age = age]
                   ELSE IF answered
                   THEN [wx EXCEPT !.served = "upstream", !.key = c,
                                   !.age = age, !.cache[c] = wx.clock]
                   ELSE [wx EXCEPT !.served = "fallback", !.key = c,
                                   !.age = age]
    /\ UNCHANGED wxOthers

-----------------------------------------------------------------------------
(* RoadSurfaceAnalyzer.analyze_road_surface on small images.  A pixel is    *)
(* its saturation and value in HSV (every hue lies inside the three hue     *)
(* ranges 0..180), the road mask one bit per pixel.  A fraction is kept as  *)
(* numerator and denominator, a rounded coverage in thousandths.  The       *)
(* brightness and the surface condition of the result are left out.         *)

MaxPixels == 3

Saturations == {10, 25, 60}
Values == {100, 190, 210, 250}
Pixels == [s : Saturations, v : Values]

\* lower_snow .. upper_ice, saturation and value
lower_snow == [s |-> 0, v |-> 200]
upper_snow == [s |-> 30, v |-> 255]
lower_wet == [s |-> 20, v |-> 40]
upper_wet == [s |-> 100, v |-> 150]
lower_ice == [s |-> 0, v |-> 180]
upper_ice == [s |-> 15, v |-> 220]

\* cv2.bitwise_and(hsv, hsv, mask=road_mask): black outside the mask
Masked(px, m) == IF m THEN px ELSE [s |-> 0, v |-> 0]

\* cv2.inRange
InRange(px, lower, upper) ==
    /\ lower.s <= px.s /\ px.s <= upper.s
    /\ lower.v <= px.v /\ px.v <= upper.v

\* np.sum(cv2.inRange(masked_hsv, lower, upper) > 0)
ClassPixels(image, road_mask, lower, upper) ==
    Cardinality({i \in 1..Len(image) :
                    InRange(Masked(image[i], road_mask[i]), lower, upper)})

\* np.sum(road_mask > 0)
RoadPixels(road_mask) == Cardinality({i \in 1..Len(road_mask) : road_mask[i]})

\* class_pixels / road_pixels if road_pixels > 0 else 0.0
Coverage(class_pixels, road_pixels) ==
    IF road_pixels > 0 THEN [num |-> class_pixels, den |-> road_pixels]
    ELSE [num |-> 0, den |-> 1]

\* round(x, 3), in thousandths
Round3(x) == RoundHalfEven(1000 * x.num, x.den)

Max3(a, b, c) ==
    IF a >= b /\ a >= c THEN a ELSE IF b >= c THEN b ELSE c

\* min(max(snow_coverage, wet_coverage, ice_coverage) * 2, 1.0); the three
\* fractions have the same denominator
Confidence(snow, wet, ice) ==
    LET top == Max3(snow.num, wet.num, ice.num)
    IN  IF 2 * top >= snow.den THEN [num |-> 1, den |-> 1]
        ELSE [num |-> 2 * top, den |-> snow.den]

\* the result of the except clause
ZeroedResult ==
    [snow_coverage |-> 0, wet_coverage |-> 0, ice_coverage |-> 0,
     road_pixels |-> 0, snow_pixels |-> 0, wet_pixels |-> 0, ice_pixels |-> 0,
     confidence |-> [num |-> 0, den |-> 1], error |-> TRUE]

\* analyze_road_surface with the mask not applied to the image
analyze_road_surface_Unmasked(image, road_mask, fault) ==
    IF fault THEN ZeroedResult
    ELSE LET all == [i \in 1..Len(image) |-> TRUE]
             road_pixels == RoadPixels(road_mask)
             snow_pixels == ClassPixels(image, all, lower_snow, upper_snow)
             wet_pixels == ClassPixels(image, all, lower_wet, upper_wet)
             ice_pixels == ClassPixels(image, all, lower_ice, upper_ice)
             snow == Coverage(snow_pixels, road_pixels)
             wet == Coverage(wet_pixels, road_pixels)
             ice == Coverage(ice_pixels, road_pixels)
         IN  [snow_coverage |-> Round3(snow), wet_coverage |-> Round3(wet),
              ice_coverage |-> Round3(ice), road_pixels |-> road_pixels,
              snow_pixels |-> snow_pixels, wet_pixels |-> wet_pixels,
              ice_pixels |-> ice_pixels,
              confidence |-> Confidence(snow, wet, ice), error |-> FALSE]

\* analyze_road_surface; fault: an exception inside the try block
analyze_road_surface(image, road_mask, fault) ==
    IF fault THEN ZeroedResult
    ELSE LET road_pixels == RoadPixels(road_mask)
             snow_pixels == ClassPixels(image, road_mask, lower_snow, upper_snow)
             wet_pixels == ClassPixels(image, road_mask, lower_wet, upper_wet)
             ice_pixels == ClassPixels(image, road_mask, lower_ice, upper_ice)
             snow == Coverage(snow_pixels, road_pixels)
             wet == Coverage(wet_pixels, road_pixels)
             ice == Coverage(ice_pixels, road_pixels)
         IN  [snow_coverage |-> Round3(snow), wet_coverage |-> Round3(wet),
              ice_coverage |-> Round3(ice), road_pixels |-> road_pixels,
              snow_pixels |-> snow_pixels, wet_pixels |-> wet_pixels,
              ice_pixels |-> ice_pixels,
              confidence |-> Confidence(snow, wet, ice), error |-> FALSE]

NoSurface ==
    [pc |-> "idle", image |-> <<>>, road_mask |-> <<>>, fault |-> FALSE,
     result |-> ZeroedResult]

\* the calls: an image of at most MaxPixels pixels and a mask of its size
SurfaceInput(s) ==
    \E n \in 1..MaxPixels :
        \E i \in [1..n -> Pixels], m \in [1..n -> BOOLEAN], x \in BOOLEAN :
            s = [NoSurface EXCEPT !.image = i, !.road_mask = m, !.fault = x]

surfOthers ==
    <<cfgVars, svcVars, storeVars, cam, road, api, asm, ovl, iter, wx, mir,
                hist>>

AnalyzeRoadSurface ==
    /\ surf.pc = "idle"
    /\ surf' = [surf EXCEPT
                  !.pc = "returned",
                  !.result = analyze_road_surface(surf.image, surf.road_mask,
                                                  surf.fault)]
    /\ UNCHANGED surfOthers

-----------------------------------------------------------------------------
(* generate_sequence from the call of the assembler to its return, with     *)
(* the mirror synchronization, and what the loop does after it: the         *)
(* assignment of last_sequence_update in _check_sequence_update and the     *)
(* sleep.  The check runs at time 1; files is the number of sequence files  *)
(* in the directory, cleanup_fails whether an unlink of                     *)
(* _cleanup_old_sequences fails.                                            *)

SyncOutcomes == {"ok", "failed", "timeout", "error"}

\* VPSSynchronizer.sync_to_vps: True when rsync ended with return code 0,
\* False when it ended with another code, timed out or raised
sync_to_vps(outcome) == outcome = "ok"

\* what generate_sequence returns after the synchronization, with None
\* for a synchronization that failed
GeneratedPath_NoneOnSyncFailure(sync_success) ==
    IF sync_success THEN "path" ELSE "None"

\* lines 275-283: sync_success only selects the log line
GeneratedPath(sync_success) == "path"

NoMirror ==
    [pc |-> "idle", enabled |-> FALSE, files |-> 0, cleanup_fails |-> FALSE,
     assembled |-> "none", sync |-> "none", value |-> "none",
     kept |-> 0, last_update |-> -1, consecutive_failures |-> 0,
     sleep |-> 0]

\* the states in which the assembler is called: mirror on or off, up to
\* KeepSequences files or one more left behind by a failed cleanup, and an
\* earlier update at time 0 or none
MirrorInput(m) ==
    \E enabled \in BOOLEAN, files \in 0..(KeepSequences + 1),
       cleanup_fails \in BOOLEAN, last \in {-1, 0} :
        m = [NoMirror EXCEPT !.pc = "assembling", !.enabled = enabled,
                             !.files = files, !.cleanup_fails = cleanup_fails,
                             !.last_update = last]

mirOthers ==
    <<cfgVars, svcVars, storeVars, cam, road, api, asm, ovl, iter, wx, surf,
               hist>>

\* lines 262-272: the assembler writes the file or raises (generate_sequence
\* returns None); after a write _cleanup_old_sequences keeps the newest
\* KeepSequences files, or stops at the first unlink that fails
MirrorAssemble ==
    /\ mir.pc = "assembling"
    /\ \E ok \in BOOLEAN :
         LET written == mir.files + 1
             kept == IF mir.cleanup_fails THEN written
                     ELSE Min(written, KeepSequences)
         IN  mir' = IF ~ok
                    THEN [mir EXCEPT !.pc = "returned", !.assembled = "failed",
                                     !.value = "None", !.kept = mir.files]
                    ELSE IF mir.enabled
                    THEN [mir EXCEPT !.pc = "syncing", !.assembled = "ok",
                                     !.files = kept, !.kept = kept]
                    ELSE [mir EXCEPT !.pc = "returned", !.assembled = "ok",
                                     !.files = kept, !.kept = kept,
                                     !.value = "path"]
    /\ UNCHANGED mirOthers

\* lines 275-283: await sync_to_vps(sequences_dir), then the path
MirrorSync ==
    /\ mir.pc = "syncing"
    /\ \E outcome \in SyncOutcomes :
         mir' = [mir EXCEPT !.pc = "returned", !.sync = outcome,
                             !.value = GeneratedPath(sync_to_vps(outcome))]
    /\ UNCHANGED mirOthers

\* _check_sequence_update, line 204: self.last_sequence_update = now
MirrorRecord ==
    /\ mir.pc = "returned"
    /\ mir' = [mir EXCEPT !.pc = "recorded", !.last_update = 1]
    /\ UNCHANGED mirOthers

\* _capture_loop, lines 167-173: enforce_storage_limits below the
\* threshold, and the sleep
MirrorSleep ==
    /\ mir.pc = "recorded"
    /\ mir' = [mir EXCEPT !.pc = "sleeping",
                           !.sleep = get_capture_interval(current_config)]
    /\ UNCHANGED mirOthers

-----------------------------------------------------------------------------
(* SnowAnalytics' history of analysis results (snow_analytics.py).          *)
(* A result is identified by its timestamp, the number of the analysis that *)
(* made it.                                                                 *)

MaxResults == 103

\* SnowAnalytics.__init__: self.max_history
max_history == 100

\* _store_historical_data saves the list whenever its length is a multiple
\* of this
SaveEvery == 10

\* _save_historical_data writes the file, or fails and logs a warning
HistorySaves == {"ok", "failed"}

\* the dictionary analyze_image compiles for the analysis number n
AnalysisResult(n) == [timestamp |-> n]

\* the list with the result appended, cut to its first max_history elements
store_historical_data_KeepsFirst(historical_data, analysis_result) ==
    LET appended == Append(historical_data, analysis_result)
    IN  IF Len(appended) > max_history
          THEN SubSeq(appended, 1, max_history)
          ELSE appended

\* _store_historical_data, the list: append, then
\* historical_data[-max_history:] when it is longer than max_history
store_historical_data(historical_data, analysis_result) ==
    LET appended == Append(historical_data, analysis_result)
    IN  IF Len(appended) > max_history
          THEN SubSeq(appended, Len(appended) - max_history + 1, Len(appended))
          ELSE appended

\* get_analytics_summary
get_analytics_summary(historical_data) ==
    IF historical_data = << >>
      THEN [status |-> "no_data"]
      ELSE LET newest == historical_data[Len(historical_data)]
           IN  [status |-> "active", latest_analysis |-> newest,
                data_points |-> Len(historical_data),
                last_updated |-> newest.timestamp]

\* after __init__: an empty history, no file written, no summary asked for
NoHistory ==
    [historical_data |-> << >>, analyses |-> 0, file |-> 0,
     summary |-> [status |-> "none"]]

histOthers ==
    <<cfgVars, svcVars, storeVars, cam, road, api, asm, ovl, iter, wx, surf,
               mir>>

\* analyze_image stores the result it compiled: _store_historical_data
\* with its periodic save. file is the timestamp of the newest result in
\* historical_data.json.
StoreHistoricalData ==
    /\ hist.analyses < MaxResults
    /\ \E outcome \in HistorySaves :
          LET n == hist.analyses + 1
              stored == store_historical_data(hist.historical_data,
                                              AnalysisResult(n))
          IN  hist' = [hist EXCEPT
                         !.analyses = n,
                         !.historical_data = stored,
                         !.file = IF Len(stored) % SaveEvery = 0
                                     /\ outcome = "ok"
                                    THEN n ELSE @]
    /\ UNCHANGED histOthers

\* generate_sequence or a request asks for the summary
GetAnalyticsSummary ==
    /\ hist' = [hist EXCEPT
                  !.summary = get_analytics_summary(hist.historical_data)]
    /\ UNCHANGED histOthers

-----------------------------------------------------------------------------
(* The state in which no component has been called.                         *)

BaseIdle ==
    /\ current_config = default_config
    /\ config_file = FileAbsent
    /\ result = Result("none", "", {})
    /\ last_call = NoCall
    /\ is_running = FALSE
    /\ capture_task = 0
    /\ task = [t \in TaskIds |-> NoTask]
    /\ start_pc = "idle"
    /\ stop_pc = "idle"
    /\ call = [h \in CallIds |-> IdleCall]
    /\ now = 0
    /\ images = {}
    /\ sequences = <<>>
    /\ last_sequence_update = -1
    /\ vps_enabled = FALSE
    /\ lp = IdleLoop
    /\ latest = NoFile
    /\ gen = NoGeneration

UnitIdle ==
    /\ cam = NoCapture
    /\ road = NoRoad
    /\ api = NoApiCall
    /\ hist = NoHistory
    /\ mir = NoMirror
    /\ surf = NoSurface
    /\ wx = NoWeather
    /\ iter = NoIteration
    /\ ovl = NoOverlay
    /\ asm = NoAssembly

-----------------------------------------------------------------------------
(* ConfigManager on its own: one manager instance, its file, and calls of   *)
(* update_config, reset_to_defaults and a reconstruction from the file.     *)

InitConfig ==
    /\ current_config = default_config
    /\ config_file = FileAbsent
    /\ result = Result("none", "", {})
    /\ last_call = NoCall
    /\ is_running = FALSE
    /\ capture_task = 0
    /\ task = [t \in TaskIds |-> NoTask]
    /\ start_pc = "idle"
    /\ stop_pc = "idle"
    /\ call = [h \in CallIds |-> IdleCall]
    /\ now = 0
    /\ images = {}
    /\ sequences = <<>>
    /\ last_sequence_update = -1
    /\ vps_enabled = FALSE
    /\ lp = IdleLoop
    /\ latest = NoFile
    /\ gen = NoGeneration
    /\ UnitIdle

CallUpdateConfig ==
    \E updates \in Requests, outcome \in SaveOutcomes :
        LET r == UpdateConfig(current_config, config_file, updates, outcome)
        IN /\ current_config' = r.config
           /\ config_file' = r.file
           /\ result' = r.result
           /\ last_call' = [op |-> "update_config", updates |-> updates,
                            saved |-> outcome = "written"]
           /\ UNCHANGED svcVars
    /\ UNCHANGED storeVars
    /\ UNCHANGED unitVars

CallResetToDefaults ==
    \E outcome \in SaveOutcomes :
        LET r == ResetToDefaults(config_file, outcome)
        IN /\ current_config' = r.config
           /\ config_file' = r.file
           /\ result' = r.result
           /\ last_call' = [op |-> "reset_to_defaults", updates |-> EmptyDict,
                            saved |-> outcome = "written"]
           /\ UNCHANGED svcVars
    /\ UNCHANGED storeVars
    /\ UNCHANGED unitVars

\* ConfigManager.__init__: a new manager loads the file
NewConfigManager ==
    /\ current_config' = LoadConfig(config_file)
    /\ last_call' = [op |-> "init", updates |-> EmptyDict, saved |-> FALSE]
    /\ UNCHANGED <<config_file, result>>
    /\ UNCHANGED svcVars
    /\ UNCHANGED storeVars
    /\ UNCHANGED unitVars

\* update_config with a request that sets the region of interest
CallUpdateRoi ==
    \E updates \in RoiRequests, outcome \in SaveOutcomes :
        LET r == UpdateConfig(current_config, config_file, updates, outcome)
        IN /\ current_config' = r.config
           /\ config_file' = r.file
           /\ result' = r.result
           /\ last_call' = [op |-> "update_config", updates |-> updates,
                            saved |-> outcome = "written"]
           /\ UNCHANGED svcVars
    /\ UNCHANGED storeVars
    /\ UNCHANGED unitVars

NextConfig == CallUpdateConfig \/ CallResetToDefaults \/ NewConfigManager

NextRoi == CallUpdateRoi \/ CallResetToDefaults \/ NewConfigManager

SpecRoi == InitConfig /\ [][NextRoi]_vars

SpecConfig == InitConfig /\ [][NextConfig]_vars

-----------------------------------------------------------------------------
(* The service: startup, the capture loop tasks, configuration requests     *)
(* and shutdown.                                                            *)

Init == InitConfig

TaskStep == \E t \in TaskIds : LoopTop(t) \/ CaptureReturns(t) \/ Cancelled(t)

Next ==
    \/ Start
    \/ StartResume
    \/ Stop
    \/ StopResume
    \/ TaskStep
    \/ \E h \in CallIds : UpdateAnalyticsConfig(h)
    \/ \E h \in CallIds : ReloadResume(h)
    \/ ResetAnalyticsConfig

Spec == Init /\ [][Next]_vars

\* The event loop runs every coroutine that is ready: a finished sleep, a
\* capture (bounded by its 30 s timeout), a delivered cancellation, and the
\* continuation of start() and of reload_config().
Fairness ==
    /\ \A t \in TaskIds :
        WF_vars(LoopTop(t)) /\ WF_vars(CaptureReturns(t)) /\ WF_vars(Cancelled(t))
    /\ \A h \in CallIds : WF_vars(ReloadResume(h))
    /\ WF_vars(StartResume)

FairSpec == Spec /\ Fairness

-----------------------------------------------------------------------------
(* The image and sequence directories under one running loop task and the   *)
(* request handlers that look for the latest sequence.                      *)

InitStore ==
    /\ current_config = default_config
    /\ config_file = FileAbsent
    /\ result = Result("none", "", {})
    /\ last_call = NoCall
    /\ is_running = TRUE
    /\ capture_task = 0
    /\ task = [t \in TaskIds |-> NoTask]
    /\ start_pc = "returned"
    /\ stop_pc = "idle"
    /\ call = [h \in CallIds |-> IdleCall]
    /\ now = 0
    /\ images = {}
    /\ sequences = <<>>
    /\ last_sequence_update = -1
    /\ vps_enabled \in BOOLEAN
    /\ lp = IdleLoop
    /\ latest = NoFile
    /\ gen = NoGeneration
    /\ UnitIdle

NextStore ==
    \/ Tick
    \/ Wake
    \/ CaptureSnapshot
    \/ SaveImage
    \/ CheckSequenceUpdate
    \/ LoadFrames
    \/ BeginWrite
    \/ EndWrite
    \/ SyncReturns
    \/ EnforceStorageLimits
    \/ CancelLoop
    \/ OtherLoopEnforces
    \/ GetLatestSequence

SpecStore == InitStore /\ [][NextStore]_vars

-----------------------------------------------------------------------------
(* One capture_snapshot call with its subprocess, under a running clock.    *)

NextCamera ==
    \/ Tick
    \/ CallCapture
    \/ SpawnReturns
    \/ FfmpegWrites
    \/ FfmpegExits
    \/ CommunicateReturns
    \/ CommunicateTimesOut
    \/ CancelCapture

SpecCamera == InitStore /\ [][NextCamera]_vars

-----------------------------------------------------------------------------
(* _determine_road_status called once on each combination of arguments.     *)

InitRoad ==
    /\ BaseIdle
    /\ cam = NoCapture
    /\ road \in RoadInputs
    /\ api = NoApiCall
    /\ hist = NoHistory
    /\ mir = NoMirror
    /\ surf = NoSurface
    /\ wx = NoWeather
    /\ iter = NoIteration
    /\ ovl = NoOverlay
    /\ asm = NoAssembly

SpecRoad == InitRoad /\ [][DetermineRoadStatus]_vars

-----------------------------------------------------------------------------
(* StorageManager under direct calls and a running clock.                   *)

InitApi == BaseIdle /\ UnitIdle

NextApi ==
    \/ Tick
    \/ CallSaveImage
    \/ CallGetRecentImages

SpecApi == InitApi /\ [][NextApi]_vars

-----------------------------------------------------------------------------
(* One assembly from each list of at most MaxFrames frames.                 *)

InitAssembler ==
    /\ BaseIdle
    /\ cam = NoCapture
    /\ road = NoRoad
    /\ api = NoApiCall
    /\ hist = NoHistory
    /\ mir = NoMirror
    /\ surf = NoSurface
    /\ wx = NoWeather
    /\ iter = NoIteration
    /\ ovl = NoOverlay
    /\ asm \in {[NoAssembly EXCEPT !.selected = l] : l \in FrameLists}

NextAssembler ==
    \/ CallCreateImageSequence
    \/ LoadImageData
    \/ CreateImageSequenceRuns
    \/ GenerateSequenceReturns

SpecAssembler == InitAssembler /\ [][NextAssembler]_vars

-----------------------------------------------------------------------------
(* One frame through the overlays, for each frame, style and fault.         *)

InitOverlay ==
    /\ BaseIdle
    /\ cam = NoCapture
    /\ road = NoRoad
    /\ api = NoApiCall
    /\ hist = NoHistory
    /\ mir = NoMirror
    /\ surf = NoSurface
    /\ wx = NoWeather
    /\ iter = NoIteration
    /\ asm = NoAssembly
    /\ ovl \in OverlayInputs

NextOverlay == TimestampOverlay \/ AnalyticsOverlayStep

SpecOverlay == InitOverlay /\ [][NextOverlay]_vars

-----------------------------------------------------------------------------
(* One loop that is never stopped, with analytics on or off.                *)

InitIteration ==
    /\ BaseIdle
    /\ cam = NoCapture
    /\ road = NoRoad
    /\ api = NoApiCall
    /\ hist = NoHistory
    /\ mir = NoMirror
    /\ surf = NoSurface
    /\ wx = NoWeather
    /\ asm = NoAssembly
    /\ ovl = NoOverlay
    /\ iter \in {[NoIteration EXCEPT !.pc = "top", !.analytics = a] :
                    a \in BOOLEAN}

NextIteration ==
    \/ IterCapture
    \/ IterAnalyze
    \/ IterSave
    \/ IterCheck
    \/ IterEnforce
    \/ IterSleep
    \/ IterWake

SpecIteration == InitIteration /\ [][NextIteration]_vars

-----------------------------------------------------------------------------
(* The weather client under calls at times of the caller's choice.          *)

InitWeather ==
    /\ BaseIdle
    /\ UnitIdle

NextWeather == WeatherClockMoves \/ GetCurrentWeather

SpecWeather == InitWeather /\ [][NextWeather]_vars

-----------------------------------------------------------------------------
(* analyze_road_surface called once on each image and mask.                 *)

InitSurface ==
    /\ BaseIdle
    /\ cam = NoCapture
    /\ road = NoRoad
    /\ api = NoApiCall
    /\ hist = NoHistory
    /\ mir = NoMirror
    /\ asm = NoAssembly
    /\ ovl = NoOverlay
    /\ iter = NoIteration
    /\ wx = NoWeather
    /\ SurfaceInput(surf)

SpecSurface == InitSurface /\ [][AnalyzeRoadSurface]_vars

-----------------------------------------------------------------------------
(* One due sequence update with the mirror on or off.                       *)

InitMirror ==
    /\ BaseIdle
    /\ cam = NoCapture
    /\ road = NoRoad
    /\ api = NoApiCall
    /\ hist = NoHistory
    /\ asm = NoAssembly
    /\ ovl = NoOverlay
    /\ iter = NoIteration
    /\ wx = NoWeather
    /\ surf = NoSurface
    /\ MirrorInput(mir)

NextMirror == MirrorAssemble \/ MirrorSync \/ MirrorRecord \/ MirrorSleep

SpecMirror == InitMirror /\ [][NextMirror]_vars

-----------------------------------------------------------------------------
(* The history from construction on, one analysis after another.            *)

InitHistory == BaseIdle /\ UnitIdle

NextHistory == StoreHistoricalData \/ GetAnalyticsSummary

SpecHistory == InitHistory /\ [][NextHistory]_vars

-----------------------------------------------------------------------------
(* Claims about the capture loop and the service life cycle.                *)

\* C1: a task that sleeps after a CameraError sleeps 300 s when the
\* iteration was the 5th or a later failed iteration in a row (since the
\* last successful one, or since the loop began), and 60 s otherwise.
C1_BackoffAfterCameraError ==
    \A t \in TaskIds :
        (task[t].pc = "sleeping" /\ task[t].outcome = "camera_error") =>
            task[t].sleep = IF task[t].streak >= 5 THEN 3000 ELSE 600

\* C1 witness: a fifth failure in a row, a CameraError, with the long sleep
C1_Witness ==
    \E t \in TaskIds :
        /\ task[t].pc = "sleeping"
        /\ task[t].outcome = "camera_error"
        /\ task[t].streak = 5
        /\ task[t].sleep = 3000

\* C2: while the service is running (started, is_running set) some loop task
\* always comes to a new capture attempt, whatever the outcomes of the
\* iterations before: no failure of an iteration ends the loop.
C2_LoopKeepsCapturing ==
    (is_running /\ start_pc = "returned") ~>
        (~is_running \/ \E t \in TaskIds : task[t].pc = "capturing")

\* C2 witness: a task is in a new capture attempt after an iteration that
\* ended in the unexpected-exception handler
C2_Witness ==
    \E t \in TaskIds :
        /\ is_running
        /\ task[t].pc = "capturing"
        /\ task[t].outcome = "unexpected"

\* C5 (as claimed): at most one capture-loop task is alive, and none once
\* stop() has returned.
C5_OneProducer ==
    /\ Cardinality({t \in TaskIds : Alive(t)}) <= 1
    /\ stop_pc = "returned" => {t \in TaskIds : Alive(t)} = {}

\* C10 (as claimed): the sleep after a successful iteration is the capture
\* interval of the live configuration, the one the configuration file holds
\* after the last update or reset (a file that a failed write left
\* unreadable is left out).
C10_IntervalFromLiveConfig ==
    [][\A t \in TaskIds :
        (/\ task[t].pc = "capturing"
         /\ task'[t].pc = "sleeping"
         /\ task'[t].outcome = "ok"
         /\ config_file.state # "corrupt") =>
            task'[t].sleep = get_capture_interval(LoadConfig(config_file))]_vars

-----------------------------------------------------------------------------
(* Claims about the image and sequence directories.                         *)

\* C6: a get_latest_sequence() call that runs while a sequence assembly is
\* in progress never returns a file that is only partially written.
C6_LatestIsComplete ==
    (latest.found /\ latest.during) => latest.complete

\* a call ran while the assembly was suspended in sync_to_vps and returned
\* the file that assembly had just written
C6_Witness ==
    /\ lp.pc = "syncing"
    /\ latest.found /\ latest.during /\ latest.complete
    /\ latest.name = lp.seq_name

\* C7: eviction never deletes a frame selected by an assembly whose frame
\* loading has not finished: while frames are being loaded every selected
\* file is on disk, and within an iteration eviction starts only after the
\* iteration's sequence check has completed.
C7_EvictionAfterLoading ==
    /\ lp.pc = "loading" =>
          /\ ~lp.evicted
          /\ \A i \in 1..Len(lp.recent) :
                \E g \in images : g.ts = lp.recent[i].ts
    /\ (lp.pc = "enforce" \/ lp.evicted) => lp.checked

\* an iteration assembled a sequence and then evicted frames
C7_Witness == lp.assembled /\ lp.evicted /\ lp.checked

C9_RecentWithinWindow ==
    lp.pc = "loading" =>
        /\ Len(lp.recent) <= MaxPerSequence
        /\ \A i, j \in 1..Len(lp.recent) :
              i < j => lp.recent[i].ts <= lp.recent[j].ts
        /\ \A i \in 1..Len(lp.recent) :
              /\ lp.recent_at - WindowTicks <= lp.recent[i].ts
              /\ lp.recent[i].ts <= lp.recent_at

\* C11: whenever the sequence check finds an assembly due, it sets
\* last_sequence_update to the time of that check when the assembly returns,
\* whether it succeeded or failed; a check that finds no assembly due
\* starts none.
C11_UpdateTimeRecorded ==
    [][/\ (lp.pc = "check" /\ Due /\ lp'.pc # "check") =>
            \/ lp'.pc = "loading" /\ lp'.seq_now = now
            \/ last_sequence_update' = now
       /\ (lp.pc \in AssemblyPcs /\ lp'.pc \notin AssemblyPcs
                                 /\ lp'.pc # "done") =>
            last_sequence_update' = lp.seq_now
       /\ (lp.pc = "check" /\ ~Due) =>
            /\ lp'.pc \notin AssemblyPcs
            /\ UNCHANGED <<sequences, last_sequence_update>>]_vars

\* the only assembly that opened its file failed and left nothing, its
\* check time was recorded, and the check of a later iteration is not due
C11_Witness ==
    /\ gen.ending = "write_failed"
    /\ sequences = <<>>
    /\ lp.pc = "check"
    /\ last_sequence_update >= 0
    /\ now > last_sequence_update
    /\ ~Due

\* C12: cancelling the loop takes effect only at the sleep between two
\* iterations: an iteration that has begun its capture is never abandoned.
C12_CancelOnlyInSleep ==
    [][(lp'.pc = "done" /\ lp.pc # "done") => lp.pc = "sleeping"]_vars

\* C16: when enforce_storage_limits returns, the frames and sequences on
\* disk are at or below the storage limit.
C16_StorageBounded ==
    [][(lp.pc = "enforce" /\ lp'.pc \notin {"enforce", "done"}) =>
          Cardinality(images') + Len(sequences') <= MaxStorage]_vars

\* C17: save_image never overwrites a saved frame: N frames saved inside
\* the window, N <= max_images, are returned by get_recent_images as N
\* distinct entries.
C17_SaveNeverOverwrites ==
    (/\ api.at >= 0
     /\ api.seen <= api.max_images
     /\ api.first_at >= api.at - api.minutes) =>
        /\ Len(api.recent) = api.seen
        /\ \A i, j \in 1..Len(api.recent) :
              i # j => api.recent[i] # api.recent[j]

-----------------------------------------------------------------------------
(* Claims about RTSPCamera.capture_snapshot.                                *)

CameraFailures ==
    {"tempfile", "no_binary", "exit_code", "no_data", "read", "invalid",
     "timeout"}

\* C13 as stated: capture_snapshot has exactly two outcomes, the return of
\* validated image bytes with the time taken after the capture, or
\* CameraError.
C13_TwoOutcomes ==
    cam.pc \in CamFinished =>
        \/ /\ cam.pc = "returned"
           /\ cam.data = "valid"
           /\ cam.exited_at >= 0 /\ cam.time >= cam.exited_at
        \/ /\ cam.pc = "raised"
           /\ cam.raised = "CameraError"

\* C13 amended: a capture_snapshot call that is not cancelled returns
\* validated image bytes with the time taken after the capture, or raises
\* CameraError, and every failure of the capture surfaces as CameraError;
\* a cancellation of the calling task leaves the call as CancelledError.
C13_TwoOutcomesUnlessCancelled ==
    /\ cam.pc \in CamFinished =>
        \/ /\ cam.pc = "returned"
           /\ cam.data = "valid"
           /\ cam.exited_at >= 0 /\ cam.time >= cam.exited_at
        \/ /\ cam.pc = "raised"
           /\ cam.raised = "CameraError"
           /\ cam.cause \in CameraFailures
        \/ /\ cam.pc = "cancelled"
           /\ cam.raised = "CancelledError"
           /\ cam.cause = "cancel"
    /\ cam.cause \in CameraFailures =>
           cam.pc = "raised" /\ cam.raised = "CameraError"

\* the extractor hung, the call gave up and raised CameraError
C13_Witness ==
    /\ cam.pc = "raised"
    /\ cam.cause = "timeout"
    /\ cam.raised = "CameraError"

\* C14: when capture_snapshot has finished, with any outcome, its temporary
\* file does not exist and its subprocess is no longer running.
C14_NothingLeftBehind ==
    cam.pc \in CamFinished =>
        /\ cam.temp = "absent"
        /\ cam.proc # "running"

-----------------------------------------------------------------------------
(* Claims about SnowAnalytics._determine_road_status.                       *)

\* the first rung of a ladder that holds; a rung is <<condition, label>>
RECURSIVE FirstMatch(_)
FirstMatch(rungs) ==
    IF rungs[1][1] THEN rungs[1][2] ELSE FirstMatch(Tail(rungs))

\* the rungs below the snow-covered ones, the same in both ladders
LowerRungs(r) ==
    << <<r.surface_condition = "partial_snow" \/ r.snow_coverage > 300,
         "Slippery">>,
       <<r.surface_condition = "icy" \/ r.ice_coverage > 300,
         "Icy - Hazardous">>,
       <<r.ice_coverage > 100 /\ r.temperature < 320, "Ice Possible">>,
       <<(r.surface_condition = "wet" \/ r.wet_coverage > 500)
            /\ r.temperature < 350, "Wet - Ice Risk">>,
       <<r.surface_condition = "wet" \/ r.wet_coverage > 500, "Wet">>,
       <<r.surface_condition = "damp" \/ r.wet_coverage > 200, "Damp">>,
       <<r.temperature < 320 /\ r.wet_coverage > 100, "Freezing Conditions">>,
       <<TRUE, "Clear">> >>

-----------------------------------------------------------------------------
(* Claims about the sequence assembler.                                     *)

AllValid(l) == \A i \in 1..Len(l) : IsOk(l[i])

\* what an artifact shows when played: each stored frame once for every
\* unit of its duration
RECURSIVE Played(_)
Played(frames) ==
    IF frames = <<>> THEN <<>>
    ELSE [i \in 1..Head(frames).duration |-> Head(frames).image]
            \o Played(Tail(frames))

\* C18: the assembler called with an empty list of frames fails (the code
\* raises ValueError) and no file is at the target path afterwards.
C18_EmptyListFails ==
    (asm.pc = "finished" /\ asm.via = "direct" /\ asm.images = <<>>) =>
        /\ asm.value = "raised"
        /\ asm.exc = "ValueError"
        /\ ~asm.target.exists

C18_Witness ==
    /\ asm.pc = "finished"
    /\ asm.via = "direct"
    /\ asm.images = <<>>
    /\ asm.value = "raised"

C20_SkipsFailingFrames ==
    (/\ asm.pc = "finished"
     /\ asm.via = "generate"
     /\ \E i \in 1..Len(asm.selected) : IsOk(asm.selected[i])) =>
        /\ asm.value = "path"
        /\ asm.target.exists
        /\ Played(asm.target.frames) = Overlaid(SelectSeq(asm.selected, IsOk))

-----------------------------------------------------------------------------
(* Claims about the overlays.                                               *)

\* C21: a rendering failure in the timestamp overlay or in an analytics
\* overlay hands the unmodified frame back to the caller, and no error
\* reaches sequence assembly: the frame is appended either way.
C21_OverlayFailureKeepsFrame ==
    /\ ovl.pc # "raised"
    /\ (ovl.pc = "stamped" /\ ovl.fault \in {"decode", "stamp"}) =>
          ovl.picture = Original(ovl.frame)
    /\ (ovl.pc = "appended" /\ ovl.fault = "analytics") =>
          ovl.picture.panel = "none"

-----------------------------------------------------------------------------
(* Claims about the steps of one iteration.                                 *)

\* C22: a failure of the analysis step does not stop the pipeline for the
\* frame: the iteration goes on to save the frame with the failure counter
\* as it was, and once the frame is saved the sequence check and the
\* storage enforcement run and the sleep is the capture interval, with the
\* counter at zero.
C22_AnalysisFailureAbsorbed ==
    [][/\ (iter.pc = "captured" /\ iter.analytics) =>
             /\ iter'.pc = "analyzed"
             /\ iter'.analysis = "failed"
             /\ iter'.consecutive_failures = iter.consecutive_failures
       /\ (iter.pc = "saved" /\ iter.analysis = "failed") =>
             iter'.pc = "checked"
       /\ (iter.pc = "checked" /\ iter.analysis = "failed") =>
             iter'.pc = "enforced"
       /\ (iter.pc = "enforced" /\ iter.analysis = "failed") =>
             /\ iter.saved
             /\ iter'.pc = "sleeping"
             /\ iter'.sleep = get_capture_interval(current_config)
             /\ iter'.consecutive_failures = 0]_vars

C22_Witness ==
    /\ iter.pc = "sleeping"
    /\ iter.analysis = "failed"
    /\ iter.saved
    /\ iter.prev_capture = "camera_error"
    /\ iter.outcome = "ok"

\* C27: after a capture attempt that succeeded the failure counter is 0
\* when the next capture is attempted, whether or not the later steps of
\* the iteration failed, so a CameraError right after a successful capture
\* is followed by the 60-second sleep.
C27_CaptureResetsStreak ==
    /\ (iter.pc = "top" /\ iter.last_capture = "ok") =>
          iter.consecutive_failures = 0
    /\ (iter.pc = "sleeping" /\ iter.last_capture = "camera_error"
           /\ iter.prev_capture = "ok") =>
          iter.sleep = ShortBackoff * 10

-----------------------------------------------------------------------------
(* Claims about the weather client.                                         *)

\* C23: get_current_weather serves a cached snapshot only when it was
\* fetched less than 300 seconds before the call; a snapshot of any greater
\* age, more than a day included, is not served from the cache.
C23_CacheOnlyWhenFresh ==
    wx.served = "cache" => (wx.age >= 0 /\ wx.age < cache_duration)

-----------------------------------------------------------------------------
(* Claims about the road region of interest in the configuration.           *)

\* C24: in every configuration state reached by update_config,
\* reset_to_defaults and reloads, an enabled region of interest has between
\* 4 and 12 points, every coordinate in [0, 1].
C24_EnabledRoiIsPolygon ==
    ("road_roi_enabled" \in DOMAIN current_config
        /\ current_config["road_roi_enabled"] = JBool(TRUE)) =>
       /\ "road_roi_points" \in DOMAIN current_config
       /\ current_config["road_roi_points"].ty = "list"
       /\ current_config["road_roi_points"].v >= MIN_POINTS
       /\ current_config["road_roi_points"].v <= MAX_POINTS

-----------------------------------------------------------------------------
(* Claims about RoadSurfaceAnalyzer.analyze_road_surface.                   *)

SurfaceCoverages(r) == {r.snow_coverage, r.wet_coverage, r.ice_coverage}

SurfaceBounds(r) ==
    /\ \A c \in SurfaceCoverages(r) : 0 <= c /\ c <= 1000
    /\ \A n \in {r.snow_pixels, r.wet_pixels, r.ice_pixels} : n <= r.road_pixels
    /\ r.road_pixels = 0 => SurfaceCoverages(r) = {0}
    /\ 0 <= r.confidence.num /\ r.confidence.num <= r.confidence.den

\* C25: the returned coverages lie in [0, 1], no class pixel count exceeds
\* the mask pixel count, the coverages are 0 for an empty mask, and the
\* confidence lies in [0, 1] and equals min(2 x the largest coverage, 1),
\* the coverage being class count / mask count; each returned coverage is
\* that fraction rounded to three decimals.
C25_ConfidenceOfFractions ==
    surf.pc = "returned" =>
        LET r == surf.result
            top == Max3(r.snow_pixels, r.wet_pixels, r.ice_pixels)
        IN  /\ SurfaceBounds(r)
            /\ r.road_pixels > 0 =>
                  r.confidence.num * r.road_pixels
                     = (IF 2 * top >= r.road_pixels THEN r.road_pixels
                        ELSE 2 * top) * r.confidence.den
            /\ r.road_pixels = 0 => r.confidence.num = 0
            /\ \A c \in {"snow", "wet", "ice"} :
                  LET n == CASE c = "snow" -> r.snow_pixels
                             [] c = "wet" -> r.wet_pixels
                             [] OTHER -> r.ice_pixels
                      got == CASE c = "snow" -> r.snow_coverage
                               [] c = "wet" -> r.wet_coverage
                               [] OTHER -> r.ice_coverage
                  IN  r.road_pixels > 0 =>
                         /\ 2 * (1000 * n - got * r.road_pixels) <= r.road_pixels
                         /\ 2 * (got * r.road_pixels - 1000 * n) <= r.road_pixels

\* one road pixel in three is snow: coverage 0.333, confidence 2/3
C25_Witness ==
    /\ surf.pc = "returned"
    /\ surf.result.road_pixels = 3
    /\ surf.result.snow_pixels = 1
    /\ surf.result.snow_coverage = 333
    /\ surf.result.confidence = [num |-> 2, den |-> 3]

-----------------------------------------------------------------------------
(* Claims about the mirror synchronization.                                 *)

\* C26: the mirror synchronization is started only after an assembly that
\* wrote its artifact, and a synchronization that fails or times out
\* changes nothing: generate_sequence returns the path, the sequence files
\* are those left by the cleanup, the failure counter stays at 0,
\* last_sequence_update becomes the time of the check and the sleep is the
\* capture interval, as after a synchronization that succeeded.
C26_SyncFailureOnlyLogged ==
    /\ mir.pc = "syncing" => mir.assembled = "ok"
    /\ mir.sync # "none" =>
          /\ mir.assembled = "ok"
          /\ mir.value = "path"
          /\ mir.files = mir.kept
          /\ mir.consecutive_failures = 0
          /\ mir.pc \in {"recorded", "sleeping"} => mir.last_update = 1
          /\ mir.pc = "sleeping" =>
                mir.sleep = get_capture_interval(current_config)

C26_Witness ==
    /\ mir.pc = "sleeping"
    /\ mir.sync = "timeout"
    /\ mir.value = "path"
    /\ mir.files = KeepSequences

-----------------------------------------------------------------------------
(* Claims about the frames selected for a sequence.                         *)

\* C28: an assembly is built from the most recent frames: the newest frame
\* in the image directory, when it lies inside the sequence window, is
\* among the frames selected, and no more than the maximum per sequence
\* are selected.
C28_NewestFramesSelected ==
    lp.pc = "loading" =>
        /\ Len(lp.recent) <= MaxPerSequence
        /\ \A f \in images :
              (/\ f.mtime >= lp.recent_at - WindowTicks
               /\ \A g \in images : g.ts <= f.ts) =>
                 \E i \in 1..Len(lp.recent) : lp.recent[i].ts = f.ts

-----------------------------------------------------------------------------
(* Claims about reload_config.                                              *)

\* stop() has returned, or start() was never called
ServiceStopped == stop_pc = "returned" \/ start_pc = "idle"

\* C29: a reload_config() call made while a loop is running ends with the
\* old loop finished and exactly one new loop started, with a failure
\* streak of 0, so that one loop is alive when it returns; while the
\* service is stopped or not yet started no loop is started; and the steps
\* of reload_config leave is_running, last_sequence_update and the stored
\* frames and sequences unchanged.
C29_ReloadRestartsOnce ==
    [][/\ \A h \in CallIds :
            (call[h].pc = "awaiting" /\ call'[h].pc = "idle") =>
               /\ Done(call[h].waits)
               /\ Cardinality({t \in TaskIds : task'[t].pc # "none"} \ Created) = 1
               /\ \A t \in TaskIds :
                     (task[t].pc = "none" /\ task'[t].pc # "none") =>
                        task'[t] = NewTask
               /\ Cardinality({t \in TaskIds :
                                 task'[t].pc \in {"start", "capturing", "sleeping"}}) = 1
       /\ ServiceStopped =>
             {t \in TaskIds : task'[t].pc # "none"} = Created
       /\ (\E h \in CallIds : call'[h] # call[h]) =>
             UNCHANGED <<is_running, last_sequence_update, images, sequences>>]_vars

-----------------------------------------------------------------------------
(* Claims about the analysis history.                                       *)

\* C30: the history never holds more than 100 results; storing a result in
\* a full history drops exactly the oldest one and keeps the others in
\* arrival order, storing in a history that is not full drops nothing; the
\* newest result is the last element and is the one get_analytics_summary
\* reports; and no step changes a result that stays in the history.
C30_HistoryBounded ==
    [][LET old == hist.historical_data
           new == hist'.historical_data
       IN  /\ Len(new) <= 100
           /\ (hist'.analyses # hist.analyses /\ Len(old) = 100) =>
                 new = Tail(old) \o <<AnalysisResult(hist'.analyses)>>
           /\ (hist'.analyses # hist.analyses /\ Len(old) < 100) =>
                 new = old \o <<AnalysisResult(hist'.analyses)>>
           /\ hist'.analyses = hist.analyses => new = old
           /\ new # << >> => new[Len(new)].timestamp = hist'.analyses
           /\ (hist'.summary # hist.summary /\ new # << >>) =>
                 /\ hist'.summary.status = "active"
                 /\ hist'.summary.latest_analysis = new[Len(new)]
                 /\ hist'.summary.last_updated = hist'.analyses]_vars

\* a full history has dropped its three oldest results and the summary
\* reports the 103rd
C30_Witness ==
    /\ Len(hist.historical_data) = 100
    /\ hist.historical_data[1].timestamp = 4
    /\ hist.summary.status = "active"
    /\ hist.summary.latest_analysis.timestamp = 103

-----------------------------------------------------------------------------
(* Claims about ConfigManager.                                              *)

UpdateStep == last_call'.op = "update_config"

\* The entry of key k is the same before and after the step
SameEntry(k) ==
    /\ (k \in DOMAIN current_config') = (k \in DOMAIN current_config)
    /\ k \in DOMAIN current_config => current_config'[k] = current_config[k]

\* C3 (as claimed): an update_config request with an out-of-range value or
\* an unknown key returns status error, names every offending key in its
\* error list, and applies no field of the request.
C3_InvalidRequestRejected ==
    [][(UpdateStep /\ OffendingKeys(last_call'.updates) # {}) =>
        /\ result'.status = "error"
        /\ OffendingKeys(last_call'.updates) \subseteq result'.errors
        /\ \A k \in DOMAIN last_call'.updates : SameEntry(k)]_vars

\* C4 (as claimed): an update_config call whose request fails validation or
\* whose write fails leaves the in-memory configuration and the
\* configuration file as they were.
C4_AllOrNothing ==
    [][(UpdateStep /\ (OffendingKeys(last_call'.updates) # {} \/ ~last_call'.saved)) =>
        /\ current_config' = current_config
        /\ config_file' = config_file]_vars

=============================================================================
